---- MODULE Spec2Model ----
(***************************************************************************)
(* A model of polysqueeze's authentication module (src/src/auth.rs) and of *)
(* the market-stream example (src/examples/wss_market.rs): the book state  *)
(* it keeps, the task that reads the stream and the functions that run it. *)
(*                                                                         *)
(* Text is a sequence of one-character strings, <<"G","E","T">> for "GET", *)
(* so that upper-casing, concatenation, base64 decoding and JSON rendering *)
(* are computed character by character.  Bytes are the integers 0..255.    *)
(*                                                                         *)
(* HMAC-SHA256, keccak256 and secp256k1 signing are idealised: each is a   *)
(* term built from its inputs, so two tags (digests, signatures) are equal *)
(* exactly when their inputs are.  What the repository's code does around  *)
(* them (which key, which message, in which order, under which domain) is  *)
(* modelled as written.                                                    *)
(***************************************************************************)
EXTENDS Integers, Sequences, FiniteSets, TLC

VARIABLES
    clock,           \* the system clock, in seconds since the Unix epoch
    preserve_order,  \* the build: serde_json's Map keeps insertion order (IndexMap)
                     \* or sorts its keys (BTreeMap, the crate's default)
    call,            \* the auth call made last: its operation, arguments and result
    wire,            \* the frames the server has sent and next_event has not read yet
    server,          \* the server's side of the connection: what it has sent so far
    data,            \* the RealtimeData behind the Arc<Mutex<..>> of run_realtime_tui
    event_task,      \* the task run_realtime_tui spawns around client.next_event()
    caller,          \* the function main runs on the client (run_realtime_tui or
                     \* handle_events), its position, its result and why it returned
    yielded,         \* history: the events next_event has returned Ok, in order
    book_data,       \* an AssetBookData whose methods are called directly
    book_calls,      \* history of the calls on book_data: the keys of its
                     \* recent_hashes, oldest first; the asset ids used; the last call
    http,            \* create_or_derive_api_key in progress: its position, the
                     \* headers it built, the requests it sent, its result
    main,            \* main of the example: its environment, the market it
                     \* loaded, its position, what it subscribed to, its result
    terminal,        \* the terminal: raw mode, alternate screen, and whether raw
                     \* mode was ever enabled
    mutex            \* the Mutex around data: who holds its guard

authVars == <<clock, preserve_order, call>>

wssVars == <<wire, server, data, event_task, caller, yielded>>

unitVars == <<book_data, book_calls>>

credVars == <<http>>

mainVars == <<main>>

tuiVars == <<terminal, mutex>>

vars == <<clock, preserve_order, call, wire, server, data, event_task, caller,
          yielded, book_data, book_calls, http, main, terminal, mutex>>

(***************************************************************************)
(* Bounds of the model.                                                    *)
(***************************************************************************)
\* the longest secret handed to decode_api_secret on its own
MaxSecretLen == 4
\* how many seconds the clock advances during a run
MaxTicks == 3
\* the largest timestamp argument of build_hmac_signature, beyond StartTime
MaxTs == 2
\* the largest nonce handed to create_l1_headers
MaxNonce == 2
\* the clock when the run starts (9: a run crosses from one digit to two)
StartTime == 9

(***************************************************************************)
(* Characters.                                                             *)
(***************************************************************************)
\* The ASCII code of each character the model writes.
Ord ==
    ("0" :> 48) @@ ("1" :> 49) @@ ("2" :> 50) @@ ("3" :> 51) @@ ("4" :> 52) @@
    ("5" :> 53) @@ ("6" :> 54) @@ ("7" :> 55) @@ ("8" :> 56) @@ ("9" :> 57) @@
    ("A" :> 65) @@ ("B" :> 66) @@ ("C" :> 67) @@ ("E" :> 69) @@ ("G" :> 71) @@
    ("O" :> 79) @@ ("P" :> 80) @@ ("Q" :> 81) @@ ("S" :> 83) @@ ("T" :> 84) @@
    ("V" :> 86) @@ ("J" :> 74) @@ ("M" :> 77) @@ ("R" :> 82) @@
    ("a" :> 97) @@ ("b" :> 98) @@ ("c" :> 99) @@ ("e" :> 101) @@ ("g" :> 103) @@
    ("o" :> 111) @@ ("p" :> 112) @@ ("q" :> 113) @@ ("s" :> 115) @@ ("t" :> 116) @@
    ("v" :> 118) @@ ("j" :> 106) @@ ("m" :> 109) @@ ("r" :> 114) @@
    ("+" :> 43) @@ ("-" :> 45) @@ ("/" :> 47) @@ ("=" :> 61) @@ ("_" :> 95) @@
    (" " :> 32) @@ ("\"" :> 34) @@ ("," :> 44) @@ (":" :> 58) @@ ("\\" :> 92) @@
    ("{" :> 123) @@ ("}" :> 125)

Chars == DOMAIN Ord

\* The character of an ASCII code.
Chr(n) == CHOOSE c \in Chars : Ord[c] = n

\* char::to_uppercase on ASCII: a..z map to A..Z, everything else to itself.
ToUpperChar(c) == IF Ord[c] >= 97 /\ Ord[c] =< 122 THEN Chr(Ord[c] - 32) ELSE c

\* str::to_uppercase
to_uppercase(s) == [i \in 1..Len(s) |-> ToUpperChar(s[i])]

\* str::as_bytes: the UTF-8 bytes of a text (one byte per ASCII character).
as_bytes(s) == [i \in 1..Len(s) |-> Ord[s[i]]]

RECURSIVE Decimal(_)
\* u64::to_string, U256::to_string and "{}" of an integer: decimal digits,
\* no sign, no leading zero.
Decimal(n) ==
    IF n < 10 THEN <<Chr(48 + n)>>
    ELSE Decimal(n \div 10) \o <<Chr(48 + (n % 10))>>

(***************************************************************************)
(* The base64 crate's engines, as decode_api_secret uses them.             *)
(***************************************************************************)
\* The sextet a character stands for in an alphabet, -1 when it is not of it.
\* URL-safe: A-Z a-z 0-9 - _      standard: A-Z a-z 0-9 + /
B64Index(c, urlsafe) ==
    LET n == Ord[c] IN
    IF n >= 65 /\ n =< 90 THEN n - 65
    ELSE IF n >= 97 /\ n =< 122 THEN n - 71
    ELSE IF n >= 48 /\ n =< 57 THEN n + 4
    ELSE IF urlsafe /\ c = "-" THEN 62
    ELSE IF urlsafe /\ c = "_" THEN 63
    ELSE IF ~urlsafe /\ c = "+" THEN 62
    ELSE IF ~urlsafe /\ c = "/" THEN 63
    ELSE -1

RECURSIVE TrailingPads(_)
\* How many '=' end the text.
TrailingPads(s) ==
    IF s = <<>> \/ s[Len(s)] # "=" THEN 0
    ELSE 1 + TrailingPads(SubSeq(s, 1, Len(s) - 1))

RECURSIVE DecodeSymbols(_, _)
\* The bytes of a run of symbols whose length is not 1 modulo 4: three bytes per
\* full quad, one byte for a final pair, two for a final triple.
DecodeSymbols(sym, urlsafe) ==
    LET ix(i) == B64Index(sym[i], urlsafe) IN
    IF Len(sym) = 0 THEN <<>>
    ELSE IF Len(sym) = 2 THEN <<ix(1) * 4 + (ix(2) \div 16)>>
    ELSE IF Len(sym) = 3
        THEN <<ix(1) * 4 + (ix(2) \div 16), (ix(2) % 16) * 16 + (ix(3) \div 4)>>
    ELSE <<ix(1) * 4 + (ix(2) \div 16),
           (ix(2) % 16) * 16 + (ix(3) \div 4),
           (ix(3) % 4) * 64 + ix(4)>>
         \o DecodeSymbols(SubSeq(sym, 5, Len(sym)), urlsafe)

\* Engine::decode of a general-purpose engine: the alphabet, and whether padding
\* is required in canonical form (PAD) or refused (NO_PAD).  Trailing bits must be
\* zero (decode_allow_trailing_bits is off in every engine used here).
\* [ok |-> TRUE, v |-> bytes] or [ok |-> FALSE].
B64Decode(s, urlsafe, padded) ==
    LET p   == TrailingPads(s)
        sym == SubSeq(s, 1, Len(s) - p)
        r   == Len(sym) % 4
        last == B64Index(sym[Len(sym)], urlsafe)
        valid ==
            /\ \A i \in 1..Len(sym) : B64Index(sym[i], urlsafe) >= 0
            /\ r # 1
            /\ IF padded THEN p = (4 - r) % 4 ELSE p = 0
            /\ r = 2 => last % 16 = 0
            /\ r = 3 => last % 4 = 0
    IN  IF valid THEN [ok |-> TRUE, v |-> DecodeSymbols(sym, urlsafe)]
        ELSE [ok |-> FALSE]

\* base64::engine::general_purpose::URL_SAFE
URL_SAFE_decode(s) == B64Decode(s, TRUE, TRUE)

\* base64::engine::general_purpose::URL_SAFE_NO_PAD
URL_SAFE_NO_PAD_decode(s) == B64Decode(s, TRUE, FALSE)

\* base64::engine::general_purpose::STANDARD
STANDARD_decode(s) == B64Decode(s, FALSE, TRUE)

\* decode_api_secret without its second decoder.
decode_api_secret_no_unpadded(secret) ==
    IF URL_SAFE_decode(secret).ok THEN URL_SAFE_decode(secret).v
    ELSE IF STANDARD_decode(secret).ok THEN STANDARD_decode(secret).v
    ELSE as_bytes(secret)

\* decode_api_secret: the first of the three decoders that succeeds, else the
\* text's own bytes.
decode_api_secret(secret) ==
    IF URL_SAFE_decode(secret).ok THEN URL_SAFE_decode(secret).v
    ELSE IF URL_SAFE_NO_PAD_decode(secret).ok THEN URL_SAFE_NO_PAD_decode(secret).v
    ELSE IF STANDARD_decode(secret).ok THEN STANDARD_decode(secret).v
    ELSE as_bytes(secret)

(***************************************************************************)
(* Result<T> and Option<T>.                                                *)
(***************************************************************************)
Ok(v) == [ok |-> TRUE, v |-> v]

\* PolyError::parse, PolyError::crypto
Err(kind) == [ok |-> FALSE, err |-> kind]

None == [some |-> FALSE]

Some(v) == [some |-> TRUE, v |-> v]

(***************************************************************************)
(* Request bodies and serde_json::to_string.                               *)
(*                                                                         *)
(* A body is one of                                                        *)
(*   [t |-> "str",    v |-> text]           a &str or String               *)
(*   [t |-> "u64",    v |-> n]              an unsigned integer            *)
(*   [t |-> "struct", v |-> <<k, value>>s]  a #[derive(Serialize)] struct, *)
(*                                          its fields as declared         *)
(*   [t |-> "object", v |-> <<k, value>>s]  a serde_json::Value object     *)
(*                                          (json!), its entries as        *)
(*                                          inserted                       *)
(*   [t |-> "badkey", v |-> <<>>]           a map whose keys are not       *)
(*                                          strings: serde_json refuses it *)
(***************************************************************************)
RECURSIVE StrLess(_, _)
\* Ord for String: lexicographic by byte, as BTreeMap<String, _> orders keys.
StrLess(a, b) ==
    IF b = <<>> THEN FALSE
    ELSE IF a = <<>> THEN TRUE
    ELSE IF Ord[Head(a)] # Ord[Head(b)] THEN Ord[Head(a)] < Ord[Head(b)]
    ELSE StrLess(Tail(a), Tail(b))

\* BTreeMap::insert: the entries stay sorted by key; an equal key is replaced.
BTreeInsert(m, kv) ==
    SelectSeq(m, LAMBDA e : StrLess(e[1], kv[1]))
        \o <<kv>> \o SelectSeq(m, LAMBDA e : StrLess(kv[1], e[1]))

\* IndexMap::insert: a new key goes last; an equal key keeps its place and takes
\* the new value.
IndexInsert(m, kv) ==
    IF \E i \in 1..Len(m) : m[i][1] = kv[1]
    THEN [i \in 1..Len(m) |-> IF m[i][1] = kv[1] THEN kv ELSE m[i]]
    ELSE Append(m, kv)

\* serde_json::Map::insert: IndexMap under the crate feature preserve_order,
\* BTreeMap otherwise.
MapInsert(m, kv) == IF preserve_order THEN IndexInsert(m, kv) ELSE BTreeInsert(m, kv)

RECURSIVE MapFrom(_)
\* The serde_json::Map that json!{...} builds, inserting the entries as written;
\* the sequence is the map's iteration order.
MapFrom(entries) ==
    IF entries = <<>> THEN <<>>
    ELSE MapInsert(MapFrom(SubSeq(entries, 1, Len(entries) - 1)), entries[Len(entries)])

RECURSIVE EscapeJson(_)
\* serde_json's string escapes: a backslash before '"' and before '\'.
EscapeJson(s) ==
    IF s = <<>> THEN <<>>
    ELSE (IF Head(s) = "\"" \/ Head(s) = "\\" THEN <<"\\", Head(s)>> ELSE <<Head(s)>>)
         \o EscapeJson(Tail(s))

JsonString(s) == <<"\"">> \o EscapeJson(s) \o <<"\"">>

RECURSIVE Serializable(_)
\* Whether serde_json::to_string succeeds on the value.
Serializable(b) ==
    IF b.t = "badkey" THEN FALSE
    ELSE IF b.t = "struct" \/ b.t = "object"
        THEN \A i \in 1..Len(b.v) : Serializable(b.v[i][2])
    ELSE TRUE

RECURSIVE ToJson(_), ToJsonEntries(_)
\* The members of an object, comma-separated, in the order given.
ToJsonEntries(es) ==
    IF es = <<>> THEN <<>>
    ELSE JsonString(es[1][1]) \o <<":">> \o ToJson(es[1][2])
         \o (IF Len(es) > 1 THEN <<",">> \o ToJsonEntries(Tail(es)) ELSE <<>>)

\* serde_json::to_string (the compact formatter): a struct writes its fields as
\* declared, a Value object iterates its Map.
ToJson(b) ==
    IF b.t = "str" THEN JsonString(b.v)
    ELSE IF b.t = "u64" THEN Decimal(b.v)
    ELSE IF b.t = "struct" THEN <<"{">> \o ToJsonEntries(b.v) \o <<"}">>
    ELSE <<"{">> \o ToJsonEntries(MapFrom(b.v)) \o <<"}">>

\* format_body_for_signature
format_body_for_signature(body) ==
    IF Serializable(body) THEN Ok(ToJson(body)) ELSE Err("parse")

(***************************************************************************)
(* The cryptographic primitives, idealised.                                *)
(***************************************************************************)
RECURSIVE StripZeros(_)
\* HMAC pads its key with zero bytes to the hash's block size, so a key stands
\* for itself with its trailing zero bytes removed (keys here are far shorter
\* than a block).
StripZeros(key) ==
    IF key # <<>> /\ key[Len(key)] = 0 THEN StripZeros(SubSeq(key, 1, Len(key) - 1))
    ELSE key

\* Hmac::<Sha256>::new_from_slice(key), update(msg), finalize(): the tag of the
\* message under the key.  new_from_slice accepts a key of any length.
HmacSha256(key, msg) == [mac |-> "HMAC-SHA256", key |-> StripZeros(key), msg |-> msg]

\* URL_SAFE.encode: padded URL-safe base64 of the bytes.
URL_SAFE_encode(bytes) == [b64url_padded |-> bytes]

\* alloy_primitives::hex::encode_prefixed: "0x" and the lower-case hex digits.
encode_prefixed(bytes) == [hex0x |-> bytes]

\* PrivateKeySigner::address: the account of a private key.
Address(signer) == [address_of |-> signer]

\* SignerSync::sign_typed_data_sync: the secp256k1 signature (RFC 6979, so
\* deterministic) of the EIP-712 digest of the struct under the domain.
sign_typed_data_sync(signer, struct, domain) ==
    [signed_by |-> signer, domain |-> domain, struct |-> struct]

(***************************************************************************)
(* auth.rs                                                                 *)
(***************************************************************************)
POLY_ADDR_HEADER == "poly_address"
POLY_SIG_HEADER == "poly_signature"
POLY_TS_HEADER == "poly_timestamp"
POLY_NONCE_HEADER == "poly_nonce"
POLY_API_KEY_HEADER == "poly_api_key"
POLY_PASS_HEADER == "poly_passphrase"

\* let polygon = 137;
polygon == 137

\* A timestamp read once, when the process started, and kept.
cached_unix_time_secs == StartTime

\* get_current_unix_time_secs: SystemTime::now() since the epoch, in seconds.
get_current_unix_time_secs == clock

\* An auth domain that follows the exchange's: it names a verifying contract.
ClobAuthDomain_with_contract ==
    [name |-> "ClobAuthDomain", version |-> "1", chain_id |-> polygon,
     verifying_contract |-> "ctf_exchange"]

\* The domain of sign_clob_auth_message: eip712_domain!{name, version, chain_id},
\* no verifying contract.
ClobAuthDomain ==
    [name |-> "ClobAuthDomain", version |-> "1", chain_id |-> polygon]

\* sign_clob_auth_message signing the default nonce whatever it is given.
sign_clob_auth_message_nonce_dropped(signer, timestamp, nonce) ==
    LET message == "This message attests that I control the given wallet"
        auth_struct == [type |-> "ClobAuth",
                        address |-> Address(signer),
                        timestamp |-> timestamp,
                        nonce |-> 0,
                        message |-> message]
    IN  Ok(encode_prefixed(sign_typed_data_sync(signer, auth_struct, ClobAuthDomain)))

\* sign_clob_auth_message
sign_clob_auth_message(signer, timestamp, nonce) ==
    LET message == "This message attests that I control the given wallet"
        auth_struct == [type |-> "ClobAuth",
                        address |-> Address(signer),
                        timestamp |-> timestamp,
                        nonce |-> nonce,
                        message |-> message]
    IN  Ok(encode_prefixed(sign_typed_data_sync(signer, auth_struct, ClobAuthDomain)))

\* sign_order_message
sign_order_message(signer, order, chain_id, verifying_contract) ==
    LET domain == [name |-> "Polymarket CTF Exchange", version |-> "1",
                   chain_id |-> chain_id, verifying_contract |-> verifying_contract]
    IN  Ok(encode_prefixed(sign_typed_data_sync(signer, order, domain)))

\* build_hmac_signature with the path written before the method.
build_hmac_signature_path_first(secret, timestamp, method, request_path, body) ==
    LET key == decode_api_secret(secret)
        body_string == IF body.some THEN format_body_for_signature(body.v) ELSE Ok(<<>>)
        message == Decimal(timestamp) \o request_path \o to_uppercase(method)
                   \o body_string.v
    IN  IF ~body_string.ok THEN body_string
        ELSE Ok(URL_SAFE_encode(HmacSha256(key, as_bytes(message))))

\* build_hmac_signature leaving the path out of the message.
build_hmac_signature_no_path(secret, timestamp, method, request_path, body) ==
    LET key == decode_api_secret(secret)
        body_string == IF body.some THEN format_body_for_signature(body.v) ELSE Ok(<<>>)
        message == Decimal(timestamp) \o to_uppercase(method) \o body_string.v
    IN  IF ~body_string.ok THEN body_string
        ELSE Ok(URL_SAFE_encode(HmacSha256(key, as_bytes(message))))

\* build_hmac_signature reading the clock instead of its timestamp argument.
build_hmac_signature_reads_clock(secret, timestamp, method, request_path, body) ==
    LET key == decode_api_secret(secret)
        body_string == IF body.some THEN format_body_for_signature(body.v) ELSE Ok(<<>>)
        message == Decimal(get_current_unix_time_secs) \o to_uppercase(method)
                   \o request_path \o body_string.v
    IN  IF ~body_string.ok THEN body_string
        ELSE Ok(URL_SAFE_encode(HmacSha256(key, as_bytes(message))))

\* build_hmac_signature; body is None or Some(a body).
build_hmac_signature(secret, timestamp, method, request_path, body) ==
    LET key == decode_api_secret(secret)
        body_string == IF body.some THEN format_body_for_signature(body.v) ELSE Ok(<<>>)
        message == Decimal(timestamp) \o to_uppercase(method) \o request_path
                   \o body_string.v
    IN  IF ~body_string.ok THEN body_string
        ELSE Ok(URL_SAFE_encode(HmacSha256(key, as_bytes(message))))

\* create_l1_headers reporting the default nonce in its header.
create_l1_headers_nonce_header_zero(signer, nonce) ==
    LET timestamp == Decimal(get_current_unix_time_secs)
        n == IF nonce.some THEN nonce.v ELSE 0
        signature == sign_clob_auth_message(signer, timestamp, n)
        address == encode_prefixed(Address(signer))
    IN  IF ~signature.ok THEN signature
        ELSE Ok((POLY_ADDR_HEADER :> address) @@ (POLY_SIG_HEADER :> signature.v)
                @@ (POLY_TS_HEADER :> timestamp) @@ (POLY_NONCE_HEADER :> Decimal(0)))

\* create_l1_headers reading the clock again for the header, a second later.
create_l1_headers_clock_read_twice(signer, nonce) ==
    LET timestamp == Decimal(get_current_unix_time_secs)
        n == IF nonce.some THEN nonce.v ELSE 0
        signature == sign_clob_auth_message(signer, timestamp, n)
        address == encode_prefixed(Address(signer))
    IN  IF ~signature.ok THEN signature
        ELSE Ok((POLY_ADDR_HEADER :> address) @@ (POLY_SIG_HEADER :> signature.v)
                @@ (POLY_TS_HEADER :> Decimal(get_current_unix_time_secs + 1))
                @@ (POLY_NONCE_HEADER :> Decimal(n)))

\* create_l1_headers; nonce is None or Some(n).
create_l1_headers(signer, nonce) ==
    LET timestamp == Decimal(get_current_unix_time_secs)
        n == IF nonce.some THEN nonce.v ELSE 0
        signature == sign_clob_auth_message(signer, timestamp, n)
        address == encode_prefixed(Address(signer))
    IN  IF ~signature.ok THEN signature
        ELSE Ok((POLY_ADDR_HEADER :> address) @@ (POLY_SIG_HEADER :> signature.v)
                @@ (POLY_TS_HEADER :> timestamp) @@ (POLY_NONCE_HEADER :> Decimal(n)))

\* create_l2_headers handing method and path to the HMAC the wrong way round.
create_l2_headers_swapped(signer, api_creds, method, req_path, body) ==
    LET address == encode_prefixed(Address(signer))
        timestamp == get_current_unix_time_secs
        hmac_signature ==
            build_hmac_signature(api_creds.secret, timestamp, req_path, method, body)
    IN  IF ~hmac_signature.ok THEN hmac_signature
        ELSE Ok((POLY_ADDR_HEADER :> address) @@ (POLY_SIG_HEADER :> hmac_signature.v)
                @@ (POLY_TS_HEADER :> Decimal(timestamp))
                @@ (POLY_API_KEY_HEADER :> api_creds.api_key)
                @@ (POLY_PASS_HEADER :> api_creds.passphrase))

\* create_l2_headers; api_creds is [api_key, secret, passphrase].
create_l2_headers(signer, api_creds, method, req_path, body) ==
    LET address == encode_prefixed(Address(signer))
        timestamp == get_current_unix_time_secs
        hmac_signature ==
            build_hmac_signature(api_creds.secret, timestamp, method, req_path, body)
    IN  IF ~hmac_signature.ok THEN hmac_signature
        ELSE Ok((POLY_ADDR_HEADER :> address) @@ (POLY_SIG_HEADER :> hmac_signature.v)
                @@ (POLY_TS_HEADER :> Decimal(timestamp))
                @@ (POLY_API_KEY_HEADER :> api_creds.api_key)
                @@ (POLY_PASS_HEADER :> api_creds.passphrase))

(***************************************************************************)
(* The inputs the calls are made with.                                     *)
(***************************************************************************)
\* Every text over these characters, up to MaxSecretLen long, is handed to
\* decode_api_secret: 'c', 'Q' and 'A' belong to both alphabets, '-' to the
\* URL-safe one only, '+' to the standard one only, '=' is the padding.
SecretChars == {"c", "Q", "A", "=", "-", "+"}

Secrets == UNION {[1..k -> SecretChars] : k \in 0..MaxSecretLen}

\* Secrets of API credentials: padded URL-safe, unpadded, standard-only, in no
\* encoding, and two that decode to zero bytes.
HmacSecrets ==
    {<<"c", "Q", "=", "=">>, <<"c", "Q">>, <<"+", "/", "+", "/">>, <<"c", "Q", "=">>,
     <<"A", "A", "=", "=">>}

Timestamps == StartTime..(StartTime + MaxTs)

Methods == {<<"G", "E", "T">>, <<"g", "e", "t">>, <<"G", "e", "t">>, <<"P", "O", "S", "T">>}

Paths == {<<"/">>, <<"/", "a">>, <<"/", "b">>}

U64(n) == [t |-> "u64", v |-> n]

Str(s) == [t |-> "str", v |-> s]

\* The bodies handed to the calls: none, texts (one with characters to escape
\* and a space), a number, a declared struct and json! objects with the same
\* members written in both orders, a struct holding an object, and a map that
\* serde_json refuses.
Bodies ==
    <<None,
      Some(Str(<<"a">>)),
      Some(Str(<<"a", " ", "\"", "\\">>)),
      Some(U64(12)),
      Some([t |-> "struct", v |-> <<<<<<"b">>, U64(1)>>, <<<<"a">>, Str(<<"b">>)>>>>]),
      Some([t |-> "object", v |-> <<<<<<"b">>, U64(1)>>, <<<<"a">>, Str(<<"b">>)>>>>]),
      Some([t |-> "object", v |-> <<<<<<"a">>, Str(<<"b">>)>>, <<<<"b">>, U64(1)>>>>]),
      Some([t |-> "struct", v |->
            <<<<<<"o">>, [t |-> "object", v |-> <<<<<<"b", "a">>, U64(1)>>, <<<<"b">>, U64(2)>>>>]>>,
              <<<<"a">>, U64(0)>>>>]),
      Some([t |-> "badkey", v |-> <<>>])>>

\* Private keys.
Signers == {"key1", "key2"}

Nonces == {None} \cup {Some(n) : n \in 0..MaxNonce}

ApiCreds ==
    {[api_key |-> "test_key", secret |-> <<"c", "Q", "=", "=">>, passphrase |-> "test_passphrase"],
     [api_key |-> "other_key", secret |-> <<"c", "Q", "=">>, passphrase |-> "other_passphrase"]}

\* Order structs (the fields that tell them apart).
Orders ==
    {[type |-> "Order", salt |-> 1, maker |-> Address("key1"), side |-> 0],
     [type |-> "Order", salt |-> 2, maker |-> Address("key2"), side |-> 1]}

\* Chain ids a caller signs orders for: Polygon and its Amoy testnet.
ChainIds == {137, 80002}

VerifyingContracts == {"ctf_exchange", "neg_risk_ctf_exchange"}

(***************************************************************************)
(* examples/wss_market.rs: the per-asset order-book state.                 *)
(*                                                                         *)
(* A Decimal price is an integer number of cents.  A Vec is a sequence, a  *)
(* HashMap<String, String> a function whose domain is its key set.  A      *)
(* HashMap has no insertion order: what its iterator yields first is any   *)
(* of its keys, so update_hash takes that key as the argument next_key.    *)
(***************************************************************************)
\* the trades AssetBookData::add_trade keeps
TradesKept == 50
\* the hashes AssetBookData::update_hash keeps
HashesKept == 10

\* Vec::first
Vec_first(v) == IF Len(v) = 0 THEN None ELSE Some(v[1])

\* Vec::insert(0, x)
Vec_insert_front(v, x) == <<x>> \o v

\* Vec::truncate
Vec_truncate(v, n) == IF Len(v) > n THEN SubSeq(v, 1, n) ELSE v

\* Option::map(|o| o.price)
map_price(o) == IF o.some THEN Some(o.v.price) ELSE None

HashMap_new == [k \in {} |-> ""]

\* HashMap::insert: a new key, or a new value under the key already there
HashMap_insert(m, k, v) == [x \in DOMAIN m \cup {k} |-> IF x = k THEN v ELSE m[x]]

\* HashMap::get(..).cloned()
HashMap_get(m, k) == IF k \in DOMAIN m THEN Some(m[k]) ELSE None

\* HashMap::remove
HashMap_remove(m, k) == [x \in DOMAIN m \ {k} |-> m[x]]

\* HashMap::len
HashMap_len(m) == Cardinality(DOMAIN m)

\* HashMap::keys().next(): the keys the iterator of m may yield first
HashMap_keys_next(m) == DOMAIN m

\* AssetBookData::new
AssetBookData_new ==
    [bids |-> <<>>, asks |-> <<>>, recent_trades |-> <<>>,
     best_bid |-> None, best_ask |-> None, recent_hashes |-> HashMap_new]

\* create_or_derive_api_key is not being called
NoHttp == [pc |-> "idle", args |-> None, requests |-> <<>>, responses |-> <<>>,
           result |-> None]

\* main is not being run
NoMain == [pc |-> "none"]

\* the terminal as the shell leaves it: line mode, main screen
Cooked == [raw_mode |-> FALSE, alternate_screen |-> FALSE, was_raw |-> FALSE]

\* nobody holds the guard of the mutex
Unlocked == "unlocked"

\* no call was made on book_data yet
NoCalls == [keys |-> <<>>, used |-> 0, op |-> "none", asset_id |-> ""]

\* update_book with the two best prices taken from the wrong sides
AssetBookData_update_book_sides_swapped(self, book) ==
    [self EXCEPT
        !.bids = book.bids,
        !.asks = book.asks,
        !.best_bid = map_price(Vec_first(book.asks)),
        !.best_ask = map_price(Vec_first(book.bids)),
        !.recent_hashes = IF book.hash # ""
                          THEN HashMap_insert(@, book.asset_id, book.hash)
                          ELSE @]

\* update_book that keeps a hash already recorded for the asset
AssetBookData_update_book_keeps_hash(self, book) ==
    [self EXCEPT
        !.bids = book.bids,
        !.asks = book.asks,
        !.best_bid = map_price(Vec_first(book.bids)),
        !.best_ask = map_price(Vec_first(book.asks)),
        !.recent_hashes = IF book.hash # "" /\ book.asset_id \notin DOMAIN @
                          THEN HashMap_insert(@, book.asset_id, book.hash)
                          ELSE @]

\* AssetBookData::update_book
AssetBookData_update_book(self, book) ==
    [self EXCEPT
        !.bids = book.bids,
        !.asks = book.asks,
        !.best_bid = map_price(Vec_first(book.bids)),
        !.best_ask = map_price(Vec_first(book.asks)),
        !.recent_hashes = IF book.hash # ""
                          THEN HashMap_insert(@, book.asset_id, book.hash)
                          ELSE @]

\* add_trade without the truncation
AssetBookData_add_trade_unbounded(self, trade, now) ==
    LET hash == HashMap_get(self.recent_hashes, trade.asset_id)
    IN  [self EXCEPT !.recent_trades = Vec_insert_front(@, <<now, trade, hash>>)]

\* add_trade that attaches no hash
AssetBookData_add_trade_no_hash(self, trade, now) ==
    LET inserted == Vec_insert_front(self.recent_trades, <<now, trade, None>>)
    IN  [self EXCEPT !.recent_trades = IF Len(inserted) > TradesKept
                                       THEN Vec_truncate(inserted, TradesKept)
                                       ELSE inserted]

\* add_trade that attaches an empty hash where none is recorded
AssetBookData_add_trade_default_hash(self, trade, now) ==
    LET hash == IF trade.asset_id \in DOMAIN self.recent_hashes
                THEN Some(self.recent_hashes[trade.asset_id]) ELSE Some("")
        inserted == Vec_insert_front(self.recent_trades, <<now, trade, hash>>)
    IN  [self EXCEPT !.recent_trades = IF Len(inserted) > TradesKept
                                       THEN Vec_truncate(inserted, TradesKept)
                                       ELSE inserted]

\* add_trade that puts the new trade behind the others and drops the first
AssetBookData_add_trade_at_back(self, trade, now) ==
    LET hash == HashMap_get(self.recent_hashes, trade.asset_id)
        inserted == Append(self.recent_trades, <<now, trade, hash>>)
    IN  [self EXCEPT !.recent_trades = IF Len(inserted) > TradesKept
                                       THEN Tail(inserted)
                                       ELSE inserted]

\* AssetBookData::add_trade; now is what Utc::now() returns
AssetBookData_add_trade(self, trade, now) ==
    LET hash == HashMap_get(self.recent_hashes, trade.asset_id)
        inserted == Vec_insert_front(self.recent_trades, <<now, trade, hash>>)
    IN  [self EXCEPT !.recent_trades = IF Len(inserted) > TradesKept
                                       THEN Vec_truncate(inserted, TradesKept)
                                       ELSE inserted]

\* AssetBookData::update_hash; next_key is what keys().next() yields
AssetBookData_update_hash(self, asset_id, hash, next_key) ==
    LET inserted == HashMap_insert(self.recent_hashes, asset_id, hash)
    IN  [self EXCEPT !.recent_hashes = IF HashMap_len(inserted) > HashesKept
                                       THEN HashMap_remove(inserted, next_key)
                                       ELSE inserted]

\* RealtimeData::new; the two selection indices, which only the drawing code
\* reads and writes, stay None here
RealtimeData_new(yes_asset_id, no_asset_id) ==
    [yes_data |-> AssetBookData_new, no_data |-> AssetBookData_new,
     yes_asset_id |-> yes_asset_id, no_asset_id |-> no_asset_id,
     yes_selected |-> None, no_selected |-> None]

\* RealtimeData::update_book
RealtimeData_update_book(self, book) ==
    IF book.asset_id = self.yes_asset_id
    THEN [self EXCEPT !.yes_data = AssetBookData_update_book(@, book)]
    ELSE IF book.asset_id = self.no_asset_id
    THEN [self EXCEPT !.no_data = AssetBookData_update_book(@, book)]
    ELSE self

\* RealtimeData::add_trade
RealtimeData_add_trade(self, trade, now) ==
    IF trade.asset_id = self.yes_asset_id
    THEN [self EXCEPT !.yes_data = AssetBookData_add_trade(@, trade, now)]
    ELSE IF trade.asset_id = self.no_asset_id
    THEN [self EXCEPT !.no_data = AssetBookData_add_trade(@, trade, now)]
    ELSE self

\* RealtimeData::update_hash
RealtimeData_update_hash(self, asset_id, hash, next_key) ==
    IF asset_id = self.yes_asset_id
    THEN [self EXCEPT !.yes_data = AssetBookData_update_hash(@, asset_id, hash, next_key)]
    ELSE IF asset_id = self.no_asset_id
    THEN [self EXCEPT !.no_data = AssetBookData_update_hash(@, asset_id, hash, next_key)]
    ELSE self

(***************************************************************************)
(* The state machine: a caller makes one call at a time, the clock advances *)
(* on its own.                                                             *)
(***************************************************************************)
Idle == [op |-> "idle"]

InitAuth ==
    /\ clock = StartTime
    /\ preserve_order \in BOOLEAN
    /\ call = Idle
    /\ wire = <<>>
    /\ server = [sent |-> 0, burst |-> 0, open |-> FALSE, last |-> <<>>]
    /\ data = RealtimeData_new("", "")
    /\ event_task = [pc |-> "not_spawned", changes |-> <<>>, aborted |-> FALSE,
                     err |-> None]
    /\ caller = [fn |-> "none", pc |-> "none", limit |-> None, count |-> 0,
                 result |-> None, err |-> None,
                 why |-> "" ]
    /\ yielded = <<>>
    /\ book_data = AssetBookData_new
    /\ book_calls = NoCalls
    /\ http = NoHttp
    /\ main = NoMain
    /\ terminal = Cooked
    /\ mutex = Unlocked

\* A second passes.
Tick ==
    /\ clock < StartTime + MaxTicks
    /\ clock' = clock + 1
    /\ UNCHANGED <<preserve_order, call>>
    /\ UNCHANGED <<wssVars, unitVars, credVars, mainVars, tuiVars>>

\* The caller is done with the result of its last call.
Return ==
    /\ call.op # "idle"
    /\ call' = Idle
    /\ UNCHANGED <<clock, preserve_order>>
    /\ UNCHANGED <<wssVars, unitVars, credVars, mainVars, tuiVars>>

CallDecodeApiSecret ==
    /\ call.op = "idle"
    /\ \E secret \in Secrets :
        call' = [op |-> "decode_api_secret", secret |-> secret,
                 out |-> decode_api_secret(secret)]
    /\ UNCHANGED <<clock, preserve_order>>
    /\ UNCHANGED <<wssVars, unitVars, credVars, mainVars, tuiVars>>

CallFormatBody ==
    /\ call.op = "idle"
    /\ \E b \in 2..Len(Bodies) :
        call' = [op |-> "format_body_for_signature", body |-> Bodies[b].v,
                 out |-> format_body_for_signature(Bodies[b].v)]
    /\ UNCHANGED <<clock, preserve_order>>
    /\ UNCHANGED <<wssVars, unitVars, credVars, mainVars, tuiVars>>

CallBuildHmacSignature ==
    /\ call.op = "idle"
    /\ \E secret \in HmacSecrets, timestamp \in Timestamps, method \in Methods,
          request_path \in Paths, b \in 1..Len(Bodies) :
        call' = [op |-> "build_hmac_signature", secret |-> secret,
                 timestamp |-> timestamp, method |-> method,
                 request_path |-> request_path, body |-> Bodies[b], b |-> b,
                 now |-> clock,
                 out |-> build_hmac_signature(secret, timestamp, method,
                                              request_path, Bodies[b])]
    /\ UNCHANGED <<clock, preserve_order>>
    /\ UNCHANGED <<wssVars, unitVars, credVars, mainVars, tuiVars>>

CallCreateL1Headers ==
    /\ call.op = "idle"
    /\ \E signer \in Signers, nonce \in Nonces :
        call' = [op |-> "create_l1_headers", signer |-> signer, nonce |-> nonce,
                 now |-> clock, out |-> create_l1_headers(signer, nonce)]
    /\ UNCHANGED <<clock, preserve_order>>
    /\ UNCHANGED <<wssVars, unitVars, credVars, mainVars, tuiVars>>

CallCreateL2Headers ==
    /\ call.op = "idle"
    /\ \E signer \in Signers, api_creds \in ApiCreds, method \in Methods,
          req_path \in Paths, b \in 1..Len(Bodies) :
        call' = [op |-> "create_l2_headers", signer |-> signer,
                 api_creds |-> api_creds, method |-> method, req_path |-> req_path,
                 body |-> Bodies[b], b |-> b, now |-> clock,
                 out |-> create_l2_headers(signer, api_creds, method, req_path,
                                           Bodies[b])]
    /\ UNCHANGED <<clock, preserve_order>>
    /\ UNCHANGED <<wssVars, unitVars, credVars, mainVars, tuiVars>>

CallSignOrderMessage ==
    /\ call.op = "idle"
    /\ \E signer \in Signers, order \in Orders, chain_id \in ChainIds,
          verifying_contract \in VerifyingContracts :
        call' = [op |-> "sign_order_message", signer |-> signer, order |-> order,
                 chain_id |-> chain_id, verifying_contract |-> verifying_contract,
                 out |-> sign_order_message(signer, order, chain_id,
                                            verifying_contract)]
    /\ UNCHANGED <<clock, preserve_order>>
    /\ UNCHANGED <<wssVars, unitVars, credVars, mainVars, tuiVars>>

NextAuth ==
    \/ Tick
    \/ Return
    \/ CallDecodeApiSecret
    \/ CallFormatBody
    \/ CallBuildHmacSignature
    \/ CallCreateL1Headers
    \/ CallCreateL2Headers
    \/ CallSignOrderMessage

SpecAuth == InitAuth /\ [][NextAuth]_vars

(***************************************************************************)
(* The claims about auth.rs.                                               *)
(***************************************************************************)
\* Two results differ: one failed and the other did not, or both succeeded with
\* different values.
Differs(r1, r2) == r1.ok # r2.ok \/ (r1.ok /\ r1.v # r2.v)

\* The canonical body of an optional body: its JSON, the empty text when absent.
CanonicalBody(body) == IF body.some THEN format_body_for_signature(body.v) ELSE Ok(<<>>)

HmacDone == call.op = "build_hmac_signature" /\ call.out.ok

\* The same call as the one made, with one argument replaced.
HmacWithMethod(m) ==
    build_hmac_signature(call.secret, call.timestamp, m, call.request_path, call.body)

HmacWithPath(p) ==
    build_hmac_signature(call.secret, call.timestamp, call.method, p, call.body)

HmacWithBody(b) ==
    build_hmac_signature(call.secret, call.timestamp, call.method, call.request_path, b)

\* C1: a successful build_hmac_signature returns the padded URL-safe base64 of
\* the HMAC-SHA256, keyed with decode_api_secret(secret), of the bytes of the
\* decimal timestamp, then the upper-cased method, then the path, then the
\* canonical body (nothing when the body is absent).
C1_HmacSignsConcatenation ==
    HmacDone =>
        LET tag == call.out.v.b64url_padded
            ts == as_bytes(Decimal(call.timestamp))
            m == as_bytes(to_uppercase(call.method))
            p == as_bytes(call.request_path)
            b == as_bytes(CanonicalBody(call.body).v)
        IN  /\ DOMAIN call.out.v = {"b64url_padded"}
            /\ tag.mac = "HMAC-SHA256"
            /\ tag.key = StripZeros(decode_api_secret(call.secret))
            /\ Len(tag.msg) = Len(ts) + Len(m) + Len(p) + Len(b)
            /\ SubSeq(tag.msg, 1, Len(ts)) = ts
            /\ SubSeq(tag.msg, Len(ts) + 1, Len(ts) + Len(m)) = m
            /\ SubSeq(tag.msg, Len(ts) + Len(m) + 1, Len(ts) + Len(m) + Len(p)) = p
            /\ SubSeq(tag.msg, Len(ts) + Len(m) + Len(p) + 1, Len(tag.msg)) = b
            /\ ~call.body.some => b = <<>>

\* C1's case: a call with a body and a method that upper-casing changes.
C1_Witness ==
    /\ HmacDone
    /\ call.body.some
    /\ to_uppercase(call.method) # call.method
    /\ call.timestamp >= 10

\* C2 as claimed: with the secret and the timestamp fixed, replacing the method
\* alone, the path alone or the body alone by a different one changes the
\* output of build_hmac_signature.
C2_AnyChangeChangesOutput ==
    HmacDone =>
        /\ \A m \in Methods : m # call.method => Differs(HmacWithMethod(m), call.out)
        /\ \A p \in Paths : p # call.request_path => Differs(HmacWithPath(p), call.out)
        /\ \A i \in 1..Len(Bodies) :
            i # call.b => Differs(HmacWithBody(Bodies[i]), call.out)

\* C2 as amended: replacing the path alone by a different one, the method alone
\* by one that differs after upper-casing, or the body alone by one whose
\* canonical JSON differs (or that cannot be serialized) changes the output;
\* replacing the method by one that differs only in letter case leaves the
\* output as it was.
C2_ChangeOfSignedTextChangesOutput ==
    HmacDone =>
        /\ \A m \in Methods :
            IF to_uppercase(m) # to_uppercase(call.method)
            THEN Differs(HmacWithMethod(m), call.out)
            ELSE HmacWithMethod(m) = call.out
        /\ \A p \in Paths : p # call.request_path => Differs(HmacWithPath(p), call.out)
        /\ \A i \in 1..Len(Bodies) :
            Differs(CanonicalBody(Bodies[i]), CanonicalBody(call.body))
                => Differs(HmacWithBody(Bodies[i]), call.out)

\* C2's case: a call whose method has another spelling of the same upper-case
\* form among the methods, and a body with an alternative of different JSON.
C2_Witness ==
    /\ HmacDone
    /\ \E m \in Methods : m # call.method /\ to_uppercase(m) = to_uppercase(call.method)
    /\ \E m \in Methods : to_uppercase(m) # to_uppercase(call.method)
    /\ call.body.some

\* C3: build_hmac_signature invoked again with the arguments of the call made,
\* at any later time, returns what that call returned.
C3_HmacDeterministic ==
    call.op = "build_hmac_signature" =>
        build_hmac_signature(call.secret, call.timestamp, call.method,
                             call.request_path, call.body) = call.out

\* C3's case: the clock has moved on since the call and differs from the
\* timestamp argument.
C3_Witness ==
    /\ HmacDone
    /\ clock > call.now
    /\ clock # call.timestamp
    /\ call.now # call.timestamp

\* C4: decode_api_secret returns the bytes of the first of URL_SAFE,
\* URL_SAFE_NO_PAD and STANDARD that decodes the text, the text's own bytes
\* when none does, and bytes in every case; "cQ==" decodes to the byte of 'q'.
C4_DecodeOrder ==
    call.op = "decode_api_secret" =>
        LET a == URL_SAFE_decode(call.secret)
            b == URL_SAFE_NO_PAD_decode(call.secret)
            c == STANDARD_decode(call.secret)
        IN  /\ a.ok => call.out = a.v
            /\ (~a.ok /\ b.ok) => call.out = b.v
            /\ (~a.ok /\ ~b.ok /\ c.ok) => call.out = c.v
            /\ (~a.ok /\ ~b.ok /\ ~c.ok) =>
                    /\ Len(call.out) = Len(call.secret)
                    /\ \A i \in 1..Len(call.secret) : call.out[i] = Ord[call.secret[i]]
            /\ \A i \in 1..Len(call.out) : call.out[i] \in 0..255
            /\ call.secret = <<"c", "Q", "=", "=">> => call.out = <<113>>

\* C4's case: a text only the third decoder accepts.
C4_Witness ==
    /\ call.op = "decode_api_secret"
    /\ ~URL_SAFE_decode(call.secret).ok
    /\ ~URL_SAFE_NO_PAD_decode(call.secret).ok
    /\ STANDARD_decode(call.secret).ok
    /\ call.out # as_bytes(call.secret)

RECURSIVE InsertionOrder(_)
\* The members of an object in the order they were first written, a repeated
\* key keeping its place and taking the last value (a Python dict).
InsertionOrder(entries) ==
    IF entries = <<>> THEN <<>>
    ELSE IndexInsert(InsertionOrder(SubSeq(entries, 1, Len(entries) - 1)),
                     entries[Len(entries)])

RECURSIVE ReferenceJson(_), ReferenceEntries(_)
ReferenceEntries(es) ==
    IF es = <<>> THEN <<>>
    ELSE JsonString(es[1][1]) \o <<":">> \o ReferenceJson(es[1][2])
         \o (IF Len(es) > 1 THEN <<",">> \o ReferenceEntries(Tail(es)) ELSE <<>>)

\* The reference rendering: compact JSON, the members of structs and of
\* objects alike in declaration or insertion order.
ReferenceJson(b) ==
    IF b.t = "str" THEN JsonString(b.v)
    ELSE IF b.t = "u64" THEN Decimal(b.v)
    ELSE <<"{">> \o ReferenceEntries(InsertionOrder(b.v)) \o <<"}">>

\* C5 as claimed: format_body_for_signature renders every body, a declared
\* struct or a json! object, as compact JSON with its keys in declaration or
\* insertion order.
C5_KeysInInsertionOrder ==
    (call.op = "format_body_for_signature" /\ call.out.ok) =>
        call.out.v = ReferenceJson(call.body)

\* C6: a successful create_l1_headers returns exactly the keys poly_address,
\* poly_signature, poly_timestamp and poly_nonce; poly_address is the signer's
\* address, and poly_nonce the decimal form of the nonce the signature signs:
\* the one supplied, 0 when none is.
C6_L1HeaderShape ==
    (call.op = "create_l1_headers" /\ call.out.ok) =>
        LET h == call.out.v
            n == IF call.nonce.some THEN call.nonce.v ELSE 0
        IN  /\ DOMAIN h = {"poly_address", "poly_signature", "poly_timestamp", "poly_nonce"}
            /\ h["poly_address"] = encode_prefixed(Address(call.signer))
            /\ h["poly_nonce"] = Decimal(n)
            /\ h["poly_signature"].hex0x.struct.nonce = n
            /\ h["poly_signature"].hex0x.signed_by = call.signer

\* C6's case: a call with a nonce other than the default.
C6_Witness ==
    /\ call.op = "create_l1_headers"
    /\ call.out.ok
    /\ call.nonce.some
    /\ call.nonce.v > 0

\* C7: for the signer of the call made and every nonce other than the one it
\* signed, create_l1_headers returns another poly_signature and the same
\* poly_address.
C7_NonceChangesSignatureOnly ==
    (call.op = "create_l1_headers" /\ call.out.ok) =>
        \A nonce \in Nonces :
            (IF nonce.some THEN nonce.v ELSE 0) # (IF call.nonce.some THEN call.nonce.v ELSE 0)
            => LET other == create_l1_headers(call.signer, nonce)
               IN  /\ other.ok
                   /\ other.v["poly_signature"] # call.out.v["poly_signature"]
                   /\ other.v["poly_address"] = call.out.v["poly_address"]

\* C7's case: the second call is made in the same second as the first, so the
\* nonce is all that tells the signed structs apart.
C7_Witness ==
    /\ call.op = "create_l1_headers"
    /\ call.out.ok
    /\ clock = call.now
    /\ call.nonce.some

\* C8: the poly_timestamp of every create_l1_headers and create_l2_headers is
\* the clock's value when that call was made.
C8_TimestampReadPerCall ==
    (call.op \in {"create_l1_headers", "create_l2_headers"} /\ call.out.ok) =>
        call.out.v["poly_timestamp"] = Decimal(call.now)

\* C8's case: the clock had advanced before the call, and again after it.
C8_Witness ==
    /\ call.op = "create_l2_headers"
    /\ call.out.ok
    /\ call.now > StartTime
    /\ clock > call.now

\* C9: a successful create_l2_headers returns the keys poly_address,
\* poly_signature, poly_timestamp, poly_api_key and poly_passphrase; the key
\* and the passphrase are the credentials', and poly_signature is
\* build_hmac_signature of the credentials' secret, the time of the call, the
\* method, the path and the body.
C9_L2HeaderShape ==
    (call.op = "create_l2_headers" /\ call.out.ok) =>
        LET h == call.out.v
            sig == build_hmac_signature(call.api_creds.secret, call.now, call.method,
                                        call.req_path, call.body)
        IN  /\ DOMAIN h = {"poly_address", "poly_signature", "poly_timestamp",
                           "poly_api_key", "poly_passphrase"}
            /\ h["poly_api_key"] = call.api_creds.api_key
            /\ h["poly_passphrase"] = call.api_creds.passphrase
            /\ h["poly_address"] = encode_prefixed(Address(call.signer))
            /\ sig.ok
            /\ h["poly_signature"] = sig.v

\* C9's case: a call with a body.
C9_Witness ==
    /\ call.op = "create_l2_headers"
    /\ call.out.ok
    /\ call.body.some
    /\ call.method # to_uppercase(call.method)

\* C10: the signature of create_l1_headers is made under the domain
\* {ClobAuthDomain, 1, 137}, which names no verifying contract, over the fixed
\* attestation message; the signature of sign_order_message is made under the
\* exchange's domain with the chain id and the contract the caller gave.
C10_FixedAuthDomain ==
    /\ (call.op = "create_l1_headers" /\ call.out.ok) =>
        LET sig == call.out.v["poly_signature"].hex0x
        IN  /\ sig.domain = [name |-> "ClobAuthDomain", version |-> "1", chain_id |-> 137]
            /\ "verifying_contract" \notin DOMAIN sig.domain
            /\ sig.struct.message = "This message attests that I control the given wallet"
    /\ (call.op = "sign_order_message" /\ call.out.ok) =>
        LET sig == call.out.v.hex0x
        IN  /\ sig.domain.name = "Polymarket CTF Exchange"
            /\ sig.domain.chain_id = call.chain_id
            /\ sig.domain.verifying_contract = call.verifying_contract
            /\ sig.struct = call.order

\* C10's case: an L1 signature made by a caller.
C10_Witness ==
    /\ call.op = "create_l1_headers"
    /\ call.out.ok
    /\ call.out.v["poly_signature"].hex0x.domain.chain_id = polygon

(***************************************************************************)
(* examples/wss_market.rs: the market channel.                             *)
(*                                                                         *)
(* The server sends frames; WssMarketClient::next_event decodes the next   *)
(* one.  A frame is a record of the same shape for every event type (the   *)
(* fields an event type does not carry are empty); seq is its position in  *)
(* what the server sent, which a last_trade_price message carries as the   *)
(* trade's own time.  Two more things arrive on the wire: text that is not *)
(* a JSON event ("malformed") and the abnormal end of the connection       *)
(* ("close").                                                              *)
(***************************************************************************)
\* frames the server sends before a burst of trades, at most
MaxPrelude == 1
\* frames the server sends when it sends no burst, at most
MaxFrames == 2
\* trades in one burst: one more than the ring keeps
MaxBurst == 51
\* frames sent and not yet read, at most
MaxInFlight == 2
\* the largest event limit handle_events is given
MaxLimit == 2

YES_ASSET == "yes_token"
NO_ASSET == "no_token"
OTHER_ASSET == "other_token"

OrderSummary(price) == [price |-> price, size |-> 100]

Frame(event_type, asset_id, hash, bids, asks, price_changes) ==
    [event_type |-> event_type, asset_id |-> asset_id, hash |-> hash,
     bids |-> bids, asks |-> asks, price_changes |-> price_changes]

MarketBook(asset_id, hash, bids, asks) ==
    Frame("book", asset_id, hash,
          [i \in 1..Len(bids) |-> OrderSummary(bids[i])],
          [i \in 1..Len(asks) |-> OrderSummary(asks[i])], <<>>)

PriceChange(price_changes) == Frame("price_change", "", "", <<>>, <<>>, price_changes)

Change(asset_id, hash) == [asset_id |-> asset_id, hash |-> hash]

LastTrade(asset_id) == Frame("last_trade_price", asset_id, "", <<>>, <<>>, <<>>)

\* The book snapshots the server sends: a two-level book listed worst price
\* first, a one-sided book without a hash, a crossed book, and one-level books.
Books ==
    { MarketBook(YES_ASSET, "h1", <<40, 45>>, <<60, 55>>),
      MarketBook(YES_ASSET, "", <<45>>, <<>>),
      MarketBook(YES_ASSET, "h3", <<56>>, <<55>>),
      MarketBook(NO_ASSET, "h1", <<45>>, <<55>>),
      MarketBook(OTHER_ASSET, "h1", <<45>>, <<55>>) }

PriceChanges ==
    { PriceChange(<<Change(YES_ASSET, "h2")>>),
      PriceChange(<<Change(NO_ASSET, "h2"), Change(OTHER_ASSET, "h2")>>) }

LastTrades == {LastTrade(a) : a \in {YES_ASSET, NO_ASSET, OTHER_ASSET}}

\* What the server may send: the four event types, an event type this client
\* does not know, and text that does not parse.
Frames ==
    Books \cup PriceChanges \cup LastTrades
    \cup { Frame("tick_size_change", YES_ASSET, "", <<>>, <<>>, <<>>),
           Frame("unknown", "", "", <<>>, <<>>, <<>>),
           Frame("malformed", "", "", <<>>, <<>>, <<>>) }

\* the frame as the seq-th one the server sends
Numbered(frame, seq) ==
    [seq |-> seq, event_type |-> frame.event_type, asset_id |-> frame.asset_id,
     hash |-> frame.hash, bids |-> frame.bids, asks |-> frame.asks,
     price_changes |-> frame.price_changes]

EventTypes == {"book", "price_change", "tick_size_change", "last_trade_price"}

\* WssMarketClient::next_event on the frame it reads: the decoded event, a
\* ParseError for text that does not parse (the connection stays up), the
\* transport's error when the connection ended.  A frame of an unknown event
\* type is not returned at all (NextEventSkipsUnknown).
next_event(frame) ==
    IF frame.event_type \in EventTypes THEN Ok(frame)
    ELSE IF frame.event_type = "malformed" THEN Err("ParseError")
    ELSE Err("NetworkError")

Limits == {None} \cup {Some(n) : n \in 1..MaxLimit}

InitWss ==
    /\ clock = StartTime
    /\ preserve_order = FALSE
    /\ call = Idle
    /\ wire = <<>>
    /\ server = [sent |-> 0, burst |-> 0, open |-> TRUE,
                 last |-> [a \in {YES_ASSET, NO_ASSET} |-> None]]
    /\ data = RealtimeData_new(YES_ASSET, NO_ASSET)
    /\ yielded = <<>>
    /\ book_data = AssetBookData_new
    /\ book_calls = NoCalls
    /\ http = NoHttp
    /\ main = NoMain
    /\ terminal = Cooked
    /\ mutex = Unlocked
    /\ \/ /\ caller = [fn |-> "run_realtime_tui", pc |-> "setup", limit |-> None,
                       count |-> 0, result |-> None, err |-> None,
                 why |-> "" ]
          /\ event_task = [pc |-> "next_event", changes |-> <<>>, aborted |-> FALSE,
                           err |-> None]
       \/ /\ \E limit \in Limits :
                caller = [fn |-> "handle_events", pc |-> "next_event", limit |-> limit,
                          count |-> 0, result |-> None, err |-> None,
                 why |-> "" ]
          /\ event_task = [pc |-> "not_spawned", changes |-> <<>>, aborted |-> FALSE,
                           err |-> None]
       \/ /\ \E listed \in 0..1 :
                caller = [fn |-> "select_market_tui", pc |-> "setup", limit |-> None,
                          count |-> listed, result |-> None, err |-> None,
                          why |-> ""]
          /\ event_task = [pc |-> "not_spawned", changes |-> <<>>, aborted |-> FALSE,
                           err |-> None]

(***************************************************************************)
(* The server.                                                             *)
(***************************************************************************)
Tracked == {YES_ASSET, NO_ASSET}

\* the assets a frame names
Names(frame) ==
    IF frame.event_type = "price_change"
    THEN {frame.price_changes[i].asset_id : i \in 1..Len(frame.price_changes)}
    ELSE {frame.asset_id}

\* history: the last frame sent for each tracked asset
LastSent(last, frame) ==
    [a \in Tracked |-> IF a \in Names(frame) THEN Some(frame) ELSE last[a]]

NextSeq == server.sent + server.burst + 1

\* The client still reads its socket: its reader has not ended.  A task that
\* was aborted is cancelled when it next has to wait, so it takes no frame
\* that the server sends after the abort, only what is on the wire already.
ClientConnected ==
    IF caller.fn = "run_realtime_tui"
    THEN event_task.pc \notin {"finished", "cancelled"} /\ ~event_task.aborted
    ELSE caller.fn = "handle_events" /\ caller.pc # "returned"

\* The server sends one more frame.
ServerSend ==
    /\ server.open
    /\ ClientConnected
    /\ server.burst = 0
    /\ server.sent < MaxFrames
    /\ Len(wire) < MaxInFlight
    /\ \E f \in Frames :
        LET frame == Numbered(f, NextSeq)
        IN  /\ wire' = Append(wire, frame)
            /\ server' = [server EXCEPT !.sent = @ + 1,
                                        !.last = LastSent(@, frame)]
    /\ UNCHANGED <<authVars, data, event_task, caller, yielded, unitVars,
                 credVars, mainVars, tuiVars>>

\* The server sends one more trade of a burst of trades in the Yes asset; the
\* burst is what fills the trade ring, and comes while the UI loop shows it.
ServerBurst ==
    /\ server.open
    /\ ClientConnected
    /\ caller.fn = "run_realtime_tui"
    /\ caller.pc = "ui_loop"
    /\ server.sent =< MaxPrelude
    /\ server.burst < MaxBurst
    /\ Len(wire) < MaxInFlight
    /\ LET frame == Numbered(LastTrade(YES_ASSET), NextSeq)
       IN  /\ wire' = Append(wire, frame)
           /\ server' = [server EXCEPT !.burst = @ + 1,
                                       !.last = LastSent(@, frame)]
    /\ UNCHANGED <<authVars, data, event_task, caller, yielded, unitVars,
                 credVars, mainVars, tuiVars>>

\* The connection breaks: the client's next read fails.
ServerClose ==
    /\ server.open
    /\ ClientConnected
    /\ Len(wire) < MaxInFlight
    /\ wire' = Append(wire, Numbered(Frame("close", "", "", <<>>, <<>>, <<>>), NextSeq))
    /\ server' = [server EXCEPT !.open = FALSE]
    /\ UNCHANGED <<authVars, data, event_task, caller, yielded, unitVars,
                 credVars, mainVars, tuiVars>>

(***************************************************************************)
(* run_realtime_tui: the event task.                                       *)
(***************************************************************************)
\* the task is inside client.next_event().await and a frame can be read
EventTaskReads ==
    /\ caller.fn = "run_realtime_tui"
    /\ event_task.pc = "next_event"
    /\ wire # <<>>
    /\ Head(wire).event_type # "unknown"

IsTracked(asset_id) == asset_id = YES_ASSET \/ asset_id = NO_ASSET

Yield(by, event) == Append(yielded, [by |-> by, event |-> event])

\* Ok(WssMarketEvent::Book(book)) with every book stored as the Yes asset's
event_task_on_book_as_yes(d, book) ==
    [d EXCEPT !.yes_data = AssetBookData_update_book(@, book)]

\* Ok(WssMarketEvent::Book(book))
event_task_on_book(d, book) ==
    IF IsTracked(book.asset_id) THEN RealtimeData_update_book(d, book) ELSE d

\* Ok(WssMarketEvent::LastTrade(trade)) with every second trade left out
event_task_on_last_trade_skips(d, trade, now) ==
    IF IsTracked(trade.asset_id) /\ trade.seq % 2 = 1
    THEN RealtimeData_add_trade(d, trade, now)
    ELSE d

\* Ok(WssMarketEvent::LastTrade(trade))
event_task_on_last_trade(d, trade, now) ==
    IF IsTracked(trade.asset_id) THEN RealtimeData_add_trade(d, trade, now) ELSE d

\* the body of `for change in price_change.price_changes`
event_task_on_change(d, change, next_key) ==
    IF IsTracked(change.asset_id)
    THEN RealtimeData_update_hash(d, change.asset_id, change.hash, next_key)
    ELSE d

EventTaskBook ==
    /\ EventTaskReads
    /\ LET r == next_event(Head(wire))
       IN  /\ r.ok /\ r.v.event_type = "book"
           /\ data' = event_task_on_book(data, r.v)
           /\ yielded' = Yield("event_task", r.v)
    /\ wire' = Tail(wire)
    /\ UNCHANGED <<authVars, server, event_task, caller, unitVars,
                 credVars, mainVars, tuiVars>>

EventTaskLastTrade ==
    /\ EventTaskReads
    /\ LET r == next_event(Head(wire))
       IN  /\ r.ok /\ r.v.event_type = "last_trade_price"
           /\ data' = event_task_on_last_trade(data, r.v, clock)
           /\ yielded' = Yield("event_task", r.v)
    /\ wire' = Tail(wire)
    /\ UNCHANGED <<authVars, server, event_task, caller, unitVars,
                 credVars, mainVars, tuiVars>>

\* Ok(WssMarketEvent::PriceChange(price_change)): the loop over its changes begins
EventTaskPriceChange ==
    /\ EventTaskReads
    /\ LET r == next_event(Head(wire))
       IN  /\ r.ok /\ r.v.event_type = "price_change"
           /\ event_task' = IF r.v.price_changes = <<>> THEN event_task
                            ELSE [event_task EXCEPT !.pc = "price_changes",
                                                    !.changes = r.v.price_changes]
           /\ yielded' = Yield("event_task", r.v)
    /\ wire' = Tail(wire)
    /\ UNCHANGED <<authVars, server, data, caller, unitVars,
                 credVars, mainVars, tuiVars>>

\* One turn of the loop: the lock is taken and released for each change.
EventTaskChange ==
    /\ caller.fn = "run_realtime_tui"
    /\ event_task.pc = "price_changes"
    /\ LET change == Head(event_task.changes)
           side == IF change.asset_id = data.yes_asset_id THEN data.yes_data
                   ELSE data.no_data
       IN  \E next_key \in HashMap_keys_next(
                   HashMap_insert(side.recent_hashes, change.asset_id, change.hash)) :
               data' = event_task_on_change(data, change, next_key)
    /\ event_task' = IF Len(event_task.changes) = 1
                     THEN [event_task EXCEPT !.pc = "next_event", !.changes = <<>>]
                     ELSE [event_task EXCEPT !.changes = Tail(@)]
    /\ UNCHANGED <<authVars, wire, server, caller, yielded, unitVars,
                 credVars, mainVars, tuiVars>>

\* Ok(_): a tick_size_change
EventTaskOther ==
    /\ EventTaskReads
    /\ LET r == next_event(Head(wire))
       IN  /\ r.ok /\ r.v.event_type = "tick_size_change"
           /\ yielded' = Yield("event_task", r.v)
    /\ wire' = Tail(wire)
    /\ UNCHANGED <<authVars, server, data, event_task, caller, unitVars,
                 credVars, mainVars, tuiVars>>

\* Err(err): the error is printed and the loop left; the task ends
EventTaskErr ==
    /\ EventTaskReads
    /\ LET r == next_event(Head(wire))
       IN  /\ ~r.ok
           /\ event_task' = [event_task EXCEPT !.pc = "finished", !.err = Some(r.err)]
    /\ wire' = Tail(wire)
    /\ UNCHANGED <<authVars, server, data, caller, yielded, unitVars,
                 credVars, mainVars, tuiVars>>

\* event_handle.abort() takes effect: the task is dropped where it awaits
EventTaskCancelled ==
    /\ event_task.pc = "next_event"
    /\ event_task.aborted
    /\ event_task' = [event_task EXCEPT !.pc = "cancelled"]
    /\ UNCHANGED <<authVars, wire, server, data, caller, yielded, unitVars,
                 credVars, mainVars, tuiVars>>

\* next_event reads a frame of an event type it does not know and goes on waiting
NextEventSkipsUnknown ==
    /\ \/ caller.fn = "run_realtime_tui" /\ event_task.pc = "next_event"
       \/ caller.fn = "handle_events" /\ caller.pc = "next_event"
    /\ wire # <<>>
    /\ Head(wire).event_type = "unknown"
    /\ wire' = Tail(wire)
    /\ UNCHANGED <<authVars, server, data, event_task, caller, yielded, unitVars,
                 credVars, mainVars, tuiVars>>

(***************************************************************************)
(* run_realtime_tui: the UI loop, and what follows it.                     *)
(***************************************************************************)
Unit == "()"

\* the two functions that put the terminal in raw mode, with the same calls
TuiFunctions == {"run_realtime_tui", "select_market_tui"}

\* enable_raw_mode, execute!(EnterAlternateScreen, EnableMouseCapture) and
\* Terminal::new all succeed: the UI loop begins
UiSetup ==
    /\ caller.fn \in TuiFunctions
    /\ caller.pc = "setup"
    /\ caller.fn = "select_market_tui" => caller.count > 0
    /\ caller' = [caller EXCEPT !.pc = "ui_loop"]
    /\ terminal' = [terminal EXCEPT !.raw_mode = TRUE, !.alternate_screen = TRUE,
                                    !.was_raw = TRUE]
    /\ UNCHANGED <<authVars, wire, server, data, event_task, yielded, unitVars,
                   credVars, mainVars, mutex>>

\* the terminal as the setup leaves it when one of its three calls fails:
\* enable_raw_mode, execute! (the screen not entered) or Terminal::new
SetupFailedAt(failed) ==
    IF failed = "enable_raw_mode" THEN terminal
    ELSE [terminal EXCEPT !.raw_mode = TRUE, !.was_raw = TRUE,
                          !.alternate_screen = (failed = "Terminal::new")]

\* one of the three calls fails: `?` returns the error at once
UiSetupFails ==
    /\ caller.fn \in TuiFunctions
    /\ caller.pc = "setup"
    /\ caller.fn = "select_market_tui" => caller.count > 0
    /\ \E failed \in {"enable_raw_mode", "execute", "Terminal::new"} :
        terminal' = SetupFailedAt(failed)
    /\ caller' = [caller EXCEPT !.pc = "returned", !.why = "setup_error",
                                !.result = Some(Err("Internal"))]
    /\ UNCHANGED <<authVars, wire, server, data, event_task, yielded, unitVars,
                   credVars, mainVars, mutex>>

\* the terminal after disable_raw_mode, execute!(LeaveAlternateScreen,
\* DisableMouseCapture) and show_cursor, stopped by the first that fails
Restored(failed) ==
    IF failed = "disable_raw_mode" THEN terminal
    ELSE [terminal EXCEPT !.raw_mode = FALSE,
                          !.alternate_screen = (failed = "execute")]

\* After the loop: event_handle.abort(), the terminal is restored (which may
\* fail), the loop's result is returned.
LeaveUiLoop(result, why) ==
    /\ event_task' = IF event_task.pc = "finished" THEN event_task
                     ELSE [event_task EXCEPT !.aborted = TRUE]
    /\ \E failed \in {"", "disable_raw_mode", "execute", "show_cursor"} :
        /\ terminal' = Restored(failed)
        /\ caller' = [caller EXCEPT !.pc = "returned", !.why = why,
                                    !.result = Some(IF failed = "" THEN result
                                                    ELSE Err("Internal"))]

\* KeyCode::Char('q') | KeyCode::Esc => break Ok(())
UiLoopQuit ==
    /\ caller.fn = "run_realtime_tui"
    /\ caller.pc = "ui_loop"
    /\ LeaveUiLoop(Ok(Unit), "quit")
    /\ UNCHANGED <<authVars, wire, server, data, yielded, unitVars,
                   credVars, mainVars, mutex>>

\* if event_handle.is_finished() { break Ok(()) }
UiLoopTaskFinished ==
    /\ caller.fn = "run_realtime_tui"
    /\ caller.pc = "ui_loop"
    /\ event_task.pc = "finished"
    /\ LeaveUiLoop(Ok(Unit), "task_finished")
    /\ UNCHANGED <<authVars, wire, server, data, yielded, unitVars,
                   credVars, mainVars, mutex>>

\* drawing, polling or reading the terminal fails: `?` returns at once
UiLoopTerminalError ==
    /\ caller.fn = "run_realtime_tui"
    /\ caller.pc = "ui_loop"
    /\ caller' = [caller EXCEPT !.pc = "returned", !.why = "terminal_error",
                                !.result = Some(Err("Internal"))]
    /\ UNCHANGED <<authVars, wire, server, data, event_task, yielded, unitVars,
                   credVars, mainVars, tuiVars>>

\* run_realtime_tui has returned without event_handle.abort(); main returns
\* in its turn (201-203) and the runtime of #[tokio::main] is shut down, and
\* with it the task
RuntimeShutdown ==
    /\ caller.fn = "run_realtime_tui"
    /\ caller.pc = "returned"
    /\ event_task.pc # "finished"
    /\ ~event_task.aborted
    /\ event_task' = [event_task EXCEPT !.aborted = TRUE]
    /\ UNCHANGED <<authVars, wire, server, data, caller, yielded, unitVars,
                   credVars, mainVars, tuiVars>>

(***************************************************************************)
(* select_market_tui; caller.count is the number of markets it can list.   *)
(***************************************************************************)
\* if sorted_markets.is_empty() { return Err(validation) }
SelectMarketNone ==
    /\ caller.fn = "select_market_tui"
    /\ caller.pc = "setup"
    /\ caller.count = 0
    /\ caller' = [caller EXCEPT !.pc = "returned", !.why = "no_markets",
                                !.result = Some(Err("Validation"))]
    /\ UNCHANGED <<authVars, wire, server, data, event_task, yielded, unitVars,
                   credVars, mainVars, tuiVars>>

\* the loop is left by `break`: q or Esc gives Err(validation), Enter the
\* market selected; the terminal is restored (which may fail) and the
\* loop's result returned
SelectMarketChosen ==
    /\ caller.fn = "select_market_tui"
    /\ caller.pc = "ui_loop"
    /\ \E key \in {"q", "Enter"},
          failed \in {"", "disable_raw_mode", "execute", "show_cursor"} :
        /\ terminal' = Restored(failed)
        /\ caller' = [caller EXCEPT
                !.pc = "returned",
                !.why = IF key = "q" THEN "quit" ELSE "selected",
                !.result = Some(IF failed # "" THEN Err("Internal")
                                ELSE IF key = "q" THEN Err("Validation")
                                ELSE Ok("market"))]
    /\ UNCHANGED <<authVars, wire, server, data, event_task, yielded, unitVars,
                   credVars, mainVars, mutex>>

\* terminal.draw or event::read fails: `?` returns at once
SelectMarketTerminalError ==
    /\ caller.fn = "select_market_tui"
    /\ caller.pc = "ui_loop"
    /\ caller' = [caller EXCEPT !.pc = "returned", !.why = "terminal_error",
                                !.result = Some(Err("Internal"))]
    /\ UNCHANGED <<authVars, wire, server, data, event_task, yielded, unitVars,
                   credVars, mainVars, tuiVars>>

(***************************************************************************)
(* handle_events.                                                          *)
(***************************************************************************)
HandleEventsReads ==
    /\ caller.fn = "handle_events"
    /\ caller.pc = "next_event"
    /\ wire # <<>>
    /\ Head(wire).event_type # "unknown"

\* Ok(event): the event is printed; with a limit, the loop ends after limit turns
HandleEventsOk ==
    /\ HandleEventsReads
    /\ LET r == next_event(Head(wire))
       IN  /\ r.ok
           /\ yielded' = Yield("handle_events", r.v)
           /\ caller' = IF caller.limit.some /\ caller.count + 1 = caller.limit.v
                        THEN [caller EXCEPT !.count = @ + 1, !.pc = "returned",
                                            !.why = "limit",
                                            !.result = Some(Ok(Unit))]
                        ELSE [caller EXCEPT !.count = IF caller.limit.some
                                                      THEN @ + 1 ELSE @]
    /\ wire' = Tail(wire)
    /\ UNCHANGED <<authVars, server, data, event_task, unitVars,
                 credVars, mainVars, tuiVars>>

\* Err(err): the error is printed, the loop left, and Ok(()) returned
HandleEventsErr ==
    /\ HandleEventsReads
    /\ LET r == next_event(Head(wire))
       IN  /\ ~r.ok
           /\ caller' = [caller EXCEPT !.pc = "returned", !.why = "stream_error",
                                       !.result = Some(Ok(Unit)),
                                       !.err = Some(r.err)]
    /\ wire' = Tail(wire)
    /\ UNCHANGED <<authVars, server, data, event_task, yielded, unitVars,
                 credVars, mainVars, tuiVars>>

NextWss ==
    \/ ServerSend
    \/ ServerClose
    \/ EventTaskBook
    \/ EventTaskLastTrade
    \/ EventTaskPriceChange
    \/ EventTaskChange
    \/ EventTaskOther
    \/ EventTaskErr
    \/ EventTaskCancelled
    \/ NextEventSkipsUnknown
    \/ UiSetup
    \/ UiSetupFails
    \/ UiLoopQuit
    \/ UiLoopTaskFinished
    \/ UiLoopTerminalError
    \/ RuntimeShutdown
    \/ SelectMarketNone
    \/ SelectMarketChosen
    \/ SelectMarketTerminalError
    \/ HandleEventsOk
    \/ HandleEventsErr

SpecWss == InitWss /\ [][NextWss]_vars

\* run_realtime_tui from its start, nobody leaving the UI loop and no terminal
\* call failing, under a burst of trades: the reader with a full ring
InitRing == InitWss /\ caller.fn = "run_realtime_tui"

NextRing ==
    \/ ServerSend
    \/ ServerBurst
    \/ UiSetup
    \/ EventTaskBook
    \/ EventTaskLastTrade
    \/ EventTaskPriceChange
    \/ EventTaskChange
    \/ EventTaskOther
    \/ EventTaskErr
    \/ NextEventSkipsUnknown

SpecRing == InitRing /\ [][NextRing]_vars

\* the event task is scheduled as long as it can take a step
EventTaskStep ==
    \/ EventTaskBook
    \/ EventTaskLastTrade
    \/ EventTaskPriceChange
    \/ EventTaskChange
    \/ EventTaskOther
    \/ EventTaskErr
    \/ NextEventSkipsUnknown

\* the runtime keeps polling the spawned task, and the UI loop comes back to
\* its is_finished() test after every poll timeout
FairSpecWss ==
    /\ InitWss
    /\ [][NextWss]_vars
    /\ WF_vars(EventTaskStep)
    /\ WF_vars(UiLoopTaskFinished)

(***************************************************************************)
(* main of examples/wss_market.rs: which asset ids it subscribes to.       *)
(*                                                                         *)
(* The text of POLY_ASSET_IDS is a sequence of one-character strings, so   *)
(* that split, trim and the filter are computed.  The markets main loads   *)
(* carry token ids as whole strings; an id stands for the 70-odd digits of *)
(* a token id, except "7", which is a short one.                           *)
(***************************************************************************)
\* the longest POLY_ASSET_IDS
MaxEnvLen == 3

\* str::split(',') from position i on, cur being the piece read so far
RECURSIVE SplitFrom(_, _, _)
SplitFrom(s, i, cur) ==
    IF i > Len(s) THEN <<cur>>
    ELSE IF s[i] = "," THEN <<cur>> \o SplitFrom(s, i + 1, <<>>)
    ELSE SplitFrom(s, i + 1, Append(cur, s[i]))

\* str::split(',')
split_comma(s) == SplitFrom(s, 1, <<>>)

\* str::trim: the text without its leading and trailing white space
RECURSIVE trim(_)
trim(s) ==
    IF s = <<>> THEN s
    ELSE IF Head(s) = " " THEN trim(Tail(s))
    ELSE IF s[Len(s)] = " " THEN trim(SubSeq(s, 1, Len(s) - 1))
    ELSE s

\* Iterator::filter(..).collect()
Filter(v, Keep(_)) == SelectSeq(v, Keep)

\* asset_ids_str.split(',').map(|s| s.trim().to_string()).filter(|s| !s.is_empty())
parse_asset_ids(asset_ids_str) ==
    LET pieces == split_comma(asset_ids_str)
        trimmed == [i \in 1..Len(pieces) |-> trim(pieces[i])]
    IN  Filter(trimmed, LAMBDA piece : piece # <<>>)

\* str::parse::<usize>().ok() of a one-digit text
parse_usize(v) ==
    IF \E n \in 0..9 : Decimal(n) = v
    THEN Some(CHOOSE n \in 0..9 : Decimal(n) = v)
    ELSE None

\* env::var("POLY_WSS_EVENT_LIMIT").ok().and_then(|v| v.parse().ok()).filter(|&n| n > 0)
event_limit(env_limit) ==
    LET parsed == IF env_limit.some THEN parse_usize(env_limit.v) ELSE None
    IN  IF parsed.some /\ parsed.v > 0 THEN parsed ELSE None

\* the number of bytes of a token id
ByteLen(id) == IF id = "" THEN 0 ELSE IF id = "7" THEN 1 ELSE 77

Token(token_id) == [token_id |-> token_id, outcome |-> "Yes"]

Market(clob_token_ids, token_ids) ==
    [clob_token_ids |-> clob_token_ids,
     tokens |-> [i \in 1..Len(token_ids) |-> Token(token_ids[i])]]

\* The markets get_market and select_market_tui may return: with and without
\* clob_token_ids, and with no, one or two tokens, some without a token id.
Markets ==
    {Market(c, t) :
        c \in {<<>>, <<YES_ASSET>>, <<YES_ASSET, NO_ASSET>>, <<"7", NO_ASSET>>},
        t \in {<<>>, <<YES_ASSET>>, <<"">>, <<YES_ASSET, NO_ASSET>>,
               <<YES_ASSET, "">>, <<"", "">>}}

\* derive_asset_ids
derive_asset_ids(market) ==
    IF market.clob_token_ids # <<>> THEN Some(market.clob_token_ids)
    ELSE LET ids == Filter([i \in 1..Len(market.tokens) |-> market.tokens[i].token_id],
                           LAMBDA id : id # "")
         IN  IF ids = <<>> THEN None ELSE Some(ids)

\* main's check of the derived ids with one id let through
main_asset_ids_one_suffices(market) ==
    LET asset_ids == derive_asset_ids(market)
    IN  IF ~asset_ids.some THEN Err("Validation")
        ELSE IF Len(asset_ids.v) < 1 THEN Err("Validation")
        ELSE Ok(asset_ids.v)

\* main, lines 179-185: the ids of the market, or the ValidationError
main_asset_ids(market) ==
    LET asset_ids == derive_asset_ids(market)
    IN  IF ~asset_ids.some THEN Err("Validation")
        ELSE IF Len(asset_ids.v) < 2 THEN Err("Validation")
        ELSE Ok(asset_ids.v)

EnvTexts == UNION {[1..k -> {"a", ",", " "}] : k \in 0..MaxEnvLen}

\* main starts: the environment is what the user set
InitMain ==
    /\ clock = StartTime
    /\ preserve_order = FALSE
    /\ call = Idle
    /\ wire = <<>>
    /\ server = [sent |-> 0, burst |-> 0, open |-> FALSE, last |-> <<>>]
    /\ data = RealtimeData_new("", "")
    /\ event_task = [pc |-> "not_spawned", changes |-> <<>>, aborted |-> FALSE,
                     err |-> None]
    /\ caller = [fn |-> "none", pc |-> "none", limit |-> None, count |-> 0,
                 result |-> None, err |-> None, why |-> ""]
    /\ yielded = <<>>
    /\ book_data = AssetBookData_new
    /\ book_calls = NoCalls
    /\ http = NoHttp
    /\ terminal = Cooked
    /\ mutex = Unlocked
    /\ \E asset_ids_str \in {None} \cup {Some(t) : t \in EnvTexts},
          limit \in {None, Some(<<"0">>), Some(<<"2">>), Some(<<"x">>)},
          condition_id \in BOOLEAN :
        main = [pc |-> "start",
                env |-> [POLY_ASSET_IDS |-> asset_ids_str,
                         POLY_WSS_EVENT_LIMIT |-> limit,
                         POLY_CONDITION_ID |-> condition_id],
                market |-> None, subscribed |-> <<>>, event_limit |-> None,
                result |-> None]

\* POLY_ASSET_IDS is set and names an asset
IdsMode ==
    /\ main.env.POLY_ASSET_IDS.some
    /\ parse_asset_ids(main.env.POLY_ASSET_IDS.v) # <<>>

MainReturn(result) == [main EXCEPT !.pc = "returned", !.result = Some(result)]

\* lines 102-117: the ids of POLY_ASSET_IDS are subscribed to; subscribe may fail
MainSubscribeIds ==
    /\ main.pc = "start"
    /\ IdsMode
    /\ LET asset_ids == parse_asset_ids(main.env.POLY_ASSET_IDS.v)
           subscribed == Append(main.subscribed, asset_ids)
       IN  \E ok \in BOOLEAN :
               main' = IF ok
                       THEN [main EXCEPT !.pc = "handle_events",
                                         !.subscribed = subscribed,
                                         !.event_limit =
                                             event_limit(main.env.POLY_WSS_EVENT_LIMIT)]
                       ELSE [MainReturn(Err("Network")) EXCEPT !.subscribed = subscribed]
    /\ UNCHANGED <<authVars, wssVars, unitVars, credVars, tuiVars>>

\* lines 126-128: handle_events returns Ok(()), and so does main
MainHandleEvents ==
    /\ main.pc = "handle_events"
    /\ main' = MainReturn(Ok(Unit))
    /\ UNCHANGED <<authVars, wssVars, unitVars, credVars, tuiVars>>

\* lines 133-152: the market is loaded by its condition id or chosen in the
\* TUI; either fails (with what the callee returned) or gives a market
MainLoadMarket ==
    /\ main.pc = "start"
    /\ ~IdsMode
    /\ \/ \E market \in Markets :
            main' = [main EXCEPT !.pc = "market", !.market = Some(market)]
       \/ \E kind \in {"Api", "Validation", "Internal"} :
            /\ kind = "Api" \/ ~main.env.POLY_CONDITION_ID
            /\ main' = MainReturn(Err(kind))
    /\ UNCHANGED <<authVars, wssVars, unitVars, credVars, tuiVars>>

\* lines 178-194: the ids are derived and checked, the two tokens taken
\* (indexing market.tokens panics when it holds fewer than two), the ids
\* subscribed to; subscribe may fail
MainSubscribeMarket ==
    /\ main.pc = "market"
    /\ LET asset_ids == main_asset_ids(main.market.v)
       IN  IF ~asset_ids.ok THEN main' = MainReturn(asset_ids)
           ELSE IF Len(main.market.v.tokens) < 2 THEN main' = MainReturn("panic")
           ELSE \E ok \in BOOLEAN :
                   main' = [(IF ok THEN [main EXCEPT !.pc = "subscribed"]
                             ELSE MainReturn(Err("Network")))
                            EXCEPT !.subscribed = Append(@, asset_ids.v)]
    /\ UNCHANGED <<authVars, wssVars, unitVars, credVars, tuiVars>>

\* lines 196-203: the first 20 bytes of each id are printed (slicing panics on
\* a shorter id), run_realtime_tui runs and main returns what it returned
MainRunTui ==
    /\ main.pc = "subscribed"
    /\ LET asset_ids == main.subscribed[Len(main.subscribed)]
       IN  IF ByteLen(asset_ids[1]) < 20 \/ ByteLen(asset_ids[2]) < 20
           THEN main' = MainReturn("panic")
           ELSE \E result \in {Ok(Unit), Err("Internal")} : main' = MainReturn(result)
    /\ UNCHANGED <<authVars, wssVars, unitVars, credVars, tuiVars>>

NextMain ==
    \/ MainSubscribeIds
    \/ MainHandleEvents
    \/ MainLoadMarket
    \/ MainSubscribeMarket
    \/ MainRunTui

SpecMain == InitMain /\ [][NextMain]_vars

(***************************************************************************)
(* The claims about examples/wss_market.rs.                                *)
(***************************************************************************)
Sides == {data.yes_data, data.no_data}

\* the events of one type that next_event has returned for an asset, in order
YieldedFor(event_type, asset_id) ==
    SelectSeq(yielded, LAMBDA y : y.event.event_type = event_type
                                  /\ y.event.asset_id = asset_id)

\* C11: after any sequence of book, price_change and last_trade events, the
\* ring of recent trades of each asset holds at most 50 entries.
C11_RingHoldsAtMostFifty ==
    \A side \in Sides : Len(side.recent_trades) =< 50

\* more than 50 trades of the Yes asset were applied, after a book or a
\* price_change, and the ring holds 50
C11_Witness ==
    /\ Len(YieldedFor("last_trade_price", YES_ASSET)) > 50
    /\ \E i \in 1..Len(yielded) : yielded[i].event.event_type \in {"book", "price_change"}
    /\ Len(data.yes_data.recent_trades) = 50

\* the hash the events of log recorded last for an asset: the hash of a book
\* that has one, the hash of a price_change entry
RECURSIVE LatestHash(_, _)
LatestHash(log, asset_id) ==
    IF log = <<>> THEN None
    ELSE LET e == log[Len(log)].event
             named == {i \in 1..Len(e.price_changes) :
                          e.price_changes[i].asset_id = asset_id}
         IN  IF e.event_type = "book" /\ e.asset_id = asset_id /\ e.hash # ""
             THEN Some(e.hash)
             ELSE IF e.event_type = "price_change" /\ named # {}
             THEN Some(e.price_changes[CHOOSE i \in named : \A j \in named : j =< i].hash)
             ELSE LatestHash(SubSeq(log, 1, Len(log) - 1), asset_id)

SideOf(d, asset_id) == IF asset_id = d.yes_asset_id THEN d.yes_data ELSE d.no_data

\* the event task has just taken a trade of a tracked asset from next_event
TradeApplied ==
    /\ Len(yielded') = Len(yielded) + 1
    /\ yielded'[Len(yielded')].by = "event_task"
    /\ yielded'[Len(yielded')].event.event_type = "last_trade_price"
    /\ IsTracked(yielded'[Len(yielded')].event.asset_id)

BookReceived(log, asset_id) ==
    \E i \in 1..Len(log) : /\ log[i].event.event_type = "book"
                           /\ log[i].event.asset_id = asset_id

\* an event of log carried a hash that is recorded for the asset: a book
\* snapshot with a non-empty hash, or a price_change with an entry for it
HashReceived(log, asset_id) ==
    \E i \in 1..Len(log) :
        \/ /\ log[i].event.event_type = "book"
           /\ log[i].event.asset_id = asset_id
           /\ log[i].event.hash # ""
        \/ /\ log[i].event.event_type = "price_change"
           /\ \E j \in 1..Len(log[i].event.price_changes) :
                 log[i].event.price_changes[j].asset_id = asset_id

\* the entry the trade just applied got in its asset's ring
NewEntry == SideOf(data', yielded'[Len(yielded')].event.asset_id).recent_trades[1]

\* C13 as claimed: every trade added for an asset before any book snapshot
\* for that asset has been received is stored with hash None, whatever other
\* events preceded it.
C13_NoneBeforeFirstBook ==
    [][TradeApplied /\ ~BookReceived(yielded, yielded'[Len(yielded')].event.asset_id)
        => NewEntry[3] = None]_vars

\* C13 as amended: every trade added for an asset before any hash has been
\* recorded for that asset (no book snapshot with a non-empty hash and no
\* price_change entry for it yet) is stored with hash None.
C13_NoneBeforeFirstHash ==
    [][TradeApplied /\ ~HashReceived(yielded, yielded'[Len(yielded')].event.asset_id)
        => NewEntry[3] = None]_vars

\* a book snapshot without a hash, then a trade of the same asset: stored with None
C13_Witness ==
    /\ Len(yielded) = 2
    /\ yielded[1].event.event_type = "book"
    /\ yielded[1].event.asset_id = YES_ASSET
    /\ yielded[2].event.event_type = "last_trade_price"
    /\ Len(data.yes_data.recent_trades) = 1
    /\ data.yes_data.recent_trades[1][3] = None

\* each bid price of the book is at most each of its ask prices
Consistent(book) ==
    \A i \in 1..Len(book.bids), j \in 1..Len(book.asks) :
        book.bids[i].price =< book.asks[j].price

\* every book snapshot received for the asset so far is consistent
BooksConsistent(asset_id) ==
    \A i \in 1..Len(yielded) :
        yielded[i].event.event_type = "book" /\ yielded[i].event.asset_id = asset_id
            => Consistent(yielded[i].event)

\* C14: after any sequence of book, price_change and last_trade events for an
\* asset in which every book snapshot is consistent, the stored best_bid is at
\* most the stored best_ask whenever both are present.
C14_BestBidAtMostBestAsk ==
    \A asset_id \in Tracked :
        LET side == SideOf(data, asset_id)
        IN  BooksConsistent(asset_id) /\ side.best_bid.some /\ side.best_ask.some
                => side.best_bid.v =< side.best_ask.v

\* the two-level book is stored for the Yes asset, both best prices present,
\* and a trade followed it
C14_Witness ==
    /\ BooksConsistent(YES_ASSET)
    /\ data.yes_data.best_bid = Some(40)
    /\ data.yes_data.best_ask = Some(60)
    /\ Len(data.yes_data.recent_trades) > 0

\* the event task has just taken a book snapshot of a tracked asset from next_event
BookApplied ==
    /\ Len(yielded') = Len(yielded) + 1
    /\ yielded'[Len(yielded')].by = "event_task"
    /\ yielded'[Len(yielded')].event.event_type = "book"
    /\ IsTracked(yielded'[Len(yielded')].event.asset_id)

\* the hash stored last for the asset
StoredHash(d, asset_id) == HashMap_get(SideOf(d, asset_id).recent_hashes, asset_id)

\* C15 as claimed: immediately after a book event for a tracked asset is
\* applied, the stored latest hash of that asset equals that book's hash,
\* replacing any hash recorded by earlier price_change events.
C15_BookHashStored ==
    [][BookApplied =>
        LET book == yielded'[Len(yielded')].event
        IN  StoredHash(data', book.asset_id) = Some(book.hash)]_vars

\* C15 as amended: immediately after a book event with a non-empty hash for a
\* tracked asset is applied, the stored latest hash of that asset is that
\* book's hash, whatever price_change events recorded before; a book event
\* with an empty hash leaves the stored hash as it was.
C15_NonEmptyBookHashStored ==
    [][BookApplied =>
        LET book == yielded'[Len(yielded')].event
        IN  StoredHash(data', book.asset_id) =
                IF book.hash # "" THEN Some(book.hash)
                ELSE StoredHash(data, book.asset_id)]_vars

\* a price_change recorded h2 for the Yes asset, then the book with hash h1
\* was applied: h1 is stored
C15_Witness ==
    /\ Len(yielded) = 2
    /\ yielded[1].event.event_type = "price_change"
    /\ YES_ASSET \in Names(yielded[1].event)
    /\ yielded[2].event.event_type = "book"
    /\ yielded[2].event.hash = "h1"
    /\ StoredHash(data, YES_ASSET) = Some("h1")

(***************************************************************************)
(* AssetBookData on its own: update_hash and update_book take the asset id *)
(* as an argument and are called here with one fresh asset id after the    *)
(* other.  (Through RealtimeData each AssetBookData only ever receives its *)
(* own asset id.)                                                          *)
(***************************************************************************)
\* the asset ids handed to the methods of book_data, at most
MaxAssets == 12

AssetId(n) == ToString(n)

InitBookData ==
    /\ clock = StartTime
    /\ preserve_order = FALSE
    /\ call = Idle
    /\ wire = <<>>
    /\ server = [sent |-> 0, burst |-> 0, open |-> FALSE, last |-> <<>>]
    /\ data = RealtimeData_new("", "")
    /\ event_task = [pc |-> "not_spawned", changes |-> <<>>, aborted |-> FALSE,
                     err |-> None]
    /\ caller = [fn |-> "none", pc |-> "none", limit |-> None, count |-> 0,
                 result |-> None, err |-> None,
                 why |-> "" ]
    /\ yielded = <<>>
    /\ book_data = AssetBookData_new
    /\ book_calls = NoCalls
    /\ http = NoHttp
    /\ main = NoMain
    /\ terminal = Cooked
    /\ mutex = Unlocked

\* the keys of map m by age once asset_id was written: asset_id is the youngest
KeysByAge(keys, asset_id, m) ==
    SelectSeq(SelectSeq(keys, LAMBDA k : k # asset_id) \o <<asset_id>>,
              LAMBDA k : k \in DOMAIN m)

\* book_data.update_hash(asset_id, "h1")
CallUpdateHash ==
    /\ book_calls.used < MaxAssets
    /\ LET asset_id == AssetId(book_calls.used + 1)
       IN  \E next_key \in HashMap_keys_next(
                   HashMap_insert(book_data.recent_hashes, asset_id, "h1")) :
               /\ book_data' = AssetBookData_update_hash(book_data, asset_id, "h1",
                                                         next_key)
               /\ book_calls' = [keys |-> KeysByAge(book_calls.keys, asset_id,
                                                    book_data'.recent_hashes),
                                 used |-> book_calls.used + 1,
                                 op |-> "update_hash", asset_id |-> asset_id]
    /\ UNCHANGED <<authVars, wssVars, credVars, mainVars, tuiVars>>

\* book_data.update_book(&book), the book with or without a hash
CallUpdateBook ==
    /\ book_calls.used < MaxAssets
    /\ LET asset_id == AssetId(book_calls.used + 1)
       IN  \E hash \in {"", "h1"} :
               /\ book_data' = AssetBookData_update_book(
                                   book_data, MarketBook(asset_id, hash, <<45>>, <<55>>))
               /\ book_calls' = [keys |-> KeysByAge(book_calls.keys, asset_id,
                                                    book_data'.recent_hashes),
                                 used |-> book_calls.used + 1,
                                 op |-> "update_book", asset_id |-> asset_id]
    /\ UNCHANGED <<authVars, wssVars, credVars, mainVars, tuiVars>>

NextBookData ==
    \/ CallUpdateHash
    \/ CallUpdateBook

SpecBookData == InitBookData /\ [][NextBookData]_vars

\* a call has just inserted a new key into the hash map of book_data, or tried to
Inserted ==
    /\ book_calls'.used = book_calls.used + 1
    /\ \/ book_calls'.op = "update_hash"
       \/ book_calls'.asset_id \in DOMAIN book_data'.recent_hashes

NumberedBooks ==
    {Numbered(b, n) : b \in {x \in Books : IsTracked(x.asset_id) /\ x.hash # ""},
                      n \in 1..MaxFrames}

\* the client state of the book's asset holds the book's bids, asks and hash
HoldsBook(book) ==
    /\ SideOf(data, book.asset_id).bids = book.bids
    /\ SideOf(data, book.asset_id).asks = book.asks
    /\ StoredHash(data, book.asset_id) = Some(book.hash)

\* run_realtime_tui keeps its event task: the user has not quit, the terminal
\* has not failed and the task has not been aborted
EventTaskKept ==
    /\ caller.fn = "run_realtime_tui"
    /\ caller.why \notin {"quit", "setup_error", "terminal_error"}
    /\ ~event_task.aborted

\* C17: for each tracked asset, if a book snapshot with hash h is the last
\* event the server emits for that asset and the reader task keeps being
\* scheduled, then eventually the client state for that asset holds that
\* snapshot's bids and asks and its stored hash equals h.
C17_LastBookReachesState ==
    \A book \in NumberedBooks :
        (<>[](server.last[book.asset_id] = Some(book)) /\ []EventTaskKept)
            => <>HoldsBook(book)

\* the trades of the asset's ring, newest first
RingTrades(asset_id) ==
    LET ring == SideOf(data, asset_id).recent_trades
    IN  [i \in 1..Len(ring) |-> ring[i][2]]

\* the trades next_event returned for the asset, the latest first, 50 at most
YieldedTrades(asset_id) ==
    LET trades == YieldedFor("last_trade_price", asset_id)
        n == Len(trades)
    IN  [i \in 1..(IF n > 50 THEN 50 ELSE n) |-> trades[n + 1 - i].event]

\* the bids and asks of the last book next_event returned for the asset
YieldedBook(asset_id) ==
    LET books == YieldedFor("book", asset_id)
    IN  IF books = <<>> THEN <<<<>>, <<>>>>
        ELSE <<books[Len(books)].event.bids, books[Len(books)].event.asks>>

\* C18: the events are consumed in the exact order next_event yields them and
\* by one reader only: the event task applies them to the shared state one at
\* a time, none reordered, merged, dropped or applied twice, and no other task
\* takes an event from the same client.
C18_AppliedInYieldOrderByOneReader ==
    caller.fn = "run_realtime_tui" =>
        /\ \A i \in 1..Len(yielded) : yielded[i].by = "event_task"
        /\ \A asset_id \in Tracked :
            /\ RingTrades(asset_id) = YieldedTrades(asset_id)
            /\ <<SideOf(data, asset_id).bids, SideOf(data, asset_id).asks>>
                   = YieldedBook(asset_id)
            /\ event_task.pc # "price_changes"
                   => StoredHash(data, asset_id) = LatestHash(yielded, asset_id)

\* a book and, after it, more than one trade of the Yes asset were taken and
\* applied; frames are still in flight
C18_Witness ==
    /\ caller.fn = "run_realtime_tui"
    /\ Len(YieldedFor("book", YES_ASSET)) = 1
    /\ Len(data.yes_data.recent_trades) > 1
    /\ data.yes_data.recent_trades[1][2].seq > data.yes_data.recent_trades[2][2].seq
    /\ wire # <<>>

\* next_event has just read a frame that does not parse
ParseErrorReturned ==
    /\ wire # <<>>
    /\ Head(wire).event_type = "malformed"
    /\ wire' = Tail(wire)

\* C19: a frame that fails to parse is surfaced as a ParseError by next_event
\* but does not end the stream: the reader goes on reading, so that events
\* that arrive after it are still read and applied to the state.
C19_ParseErrorKeepsReading ==
    [][ParseErrorReturned =>
        /\ (caller.fn = "run_realtime_tui" => event_task'.pc = "next_event")
        /\ (caller.fn = "handle_events" => caller'.pc = "next_event")]_vars

\* the function main ran on the client has returned because the stream ended
\* with an error from next_event
ReturnedOnStreamError ==
    /\ caller.pc = "returned"
    /\ \/ caller.fn = "handle_events" /\ caller.err.some
       \/ /\ caller.fn = "run_realtime_tui"
          /\ caller.why = "task_finished"
          /\ event_task.err.some

\* C20: a stream error returned by next_event is never swallowed:
\* handle_events and run_realtime_tui return a typed error, not Ok, when the
\* stream ended because next_event returned an error.
C20_StreamErrorReturned ==
    ReturnedOnStreamError => ~caller.result.v.ok

(***************************************************************************)
(* Claims C21 to C30.                                                      *)
(***************************************************************************)
\* the prices of the levels of one side of a book
Prices(levels) == {levels[i].price : i \in 1..Len(levels)}

\* the highest price among the levels, None when there is none
Highest(levels) ==
    IF levels = <<>> THEN None
    ELSE Some(CHOOSE p \in Prices(levels) : \A q \in Prices(levels) : q =< p)

\* the lowest price among the levels, None when there is none
Lowest(levels) ==
    IF levels = <<>> THEN None
    ELSE Some(CHOOSE p \in Prices(levels) : \A q \in Prices(levels) : p =< q)

\* C25: after a book event is applied, the asset's bids and asks are exactly
\* the snapshot's lists, best_bid is the highest bid price and best_ask the
\* lowest ask price of that snapshot whatever order the wire listed them in,
\* and each is None when its side is empty.
C25_BookReplacedBestPricesExtreme ==
    [][BookApplied =>
        LET book == yielded'[Len(yielded')].event
            side == SideOf(data', book.asset_id)
        IN  /\ side.bids = book.bids
            /\ side.asks = book.asks
            /\ side.best_bid = Highest(book.bids)
            /\ side.best_ask = Lowest(book.asks)]_vars

\* C26: the trade ring is ordered newest first: add_trade puts the new trade
\* at index 0 and keeps the relative order of the others, and when the ring
\* already holds 50 trades the one dropped is the oldest (last) one.
C26_NewestFirstOldestDropped ==
    [][TradeApplied =>
        LET trade == yielded'[Len(yielded')].event
            old == SideOf(data, trade.asset_id).recent_trades
            new == SideOf(data', trade.asset_id).recent_trades
            kept == IF Len(old) >= 50 THEN 49 ELSE Len(old)
        IN  /\ new[1][2] = trade
            /\ Len(new) = kept + 1
            /\ \A i \in 1..kept : new[i + 1] = old[i]]_vars

\* 51 trades of the Yes asset were applied: the ring holds the last 50 of
\* them, the latest first, and the first one is gone
C26_Witness ==
    LET trades == YieldedFor("last_trade_price", YES_ASSET)
        ring == data.yes_data.recent_trades
    IN  /\ Len(trades) = 51
        /\ Len(ring) = 50
        /\ ring[1][2] = trades[51].event
        /\ ring[50][2] = trades[2].event

\* book_data.update_hash(asset_id, h) has just returned
HashUpdated ==
    /\ book_calls'.used = book_calls.used + 1
    /\ book_calls'.op = "update_hash"

OnlySideChanged(asset_id) ==
    IF asset_id = data.yes_asset_id
    THEN data' = [data EXCEPT !.yes_data = data'.yes_data]
    ELSE IF asset_id = data.no_asset_id
    THEN data' = [data EXCEPT !.no_data = data'.no_data]
    ELSE data' = data

\* the event task has just taken an event from next_event
EventTaken ==
    /\ Len(yielded') = Len(yielded) + 1
    /\ yielded'[Len(yielded')].by = "event_task"

\* the event task has just handled one entry of a price_change event
ChangeHandled ==
    /\ event_task.pc = "price_changes"
    /\ event_task'.changes # event_task.changes

\* C28: state updates are confined to the asset they name: an event for the
\* Yes asset changes only yes_data and one for the No asset only no_data,
\* while book, price_change and last_trade events naming any other asset, and
\* every tick_size_change event, leave RealtimeData unchanged.
C28_UpdatesConfinedToNamedAsset ==
    [][/\ EventTaken =>
            LET e == yielded'[Len(yielded')].event
            IN  IF e.event_type \in {"book", "last_trade_price"}
                THEN OnlySideChanged(e.asset_id)
                ELSE data' = data
       /\ ChangeHandled => OnlySideChanged(Head(event_task.changes).asset_id)
       /\ data' # data => EventTaken \/ ChangeHandled]_vars

\* a price_change naming the No asset and another asset, then a book of the
\* other asset: the No asset has its hash, and nothing else was written
C28_Witness ==
    /\ Len(yielded) = 2
    /\ yielded[1].event.event_type = "price_change"
    /\ Names(yielded[1].event) = {NO_ASSET, OTHER_ASSET}
    /\ yielded[2].event.event_type = "book"
    /\ yielded[2].event.asset_id = OTHER_ASSET
    /\ event_task.pc = "next_event"
    /\ data.yes_data = AssetBookData_new
    /\ data.no_data = [AssetBookData_new EXCEPT
                          !.recent_hashes = HashMap_insert(@, NO_ASSET, "h2")]

\* C27: within one call, the timestamp put in the poly_timestamp header is the
\* very value that was signed: create_l1_headers signs the ClobAuth struct
\* with it and create_l2_headers builds the HMAC message with it, the clock
\* being read exactly once per call.
C27_HeaderTimestampIsSigned ==
    /\ (call.op = "create_l1_headers" /\ call.out.ok) =>
            call.out.v["poly_signature"].hex0x.struct.timestamp
                = call.out.v["poly_timestamp"]
    /\ (call.op = "create_l2_headers" /\ call.out.ok) =>
            \E t \in StartTime..(StartTime + MaxTicks) :
                /\ Decimal(t) = call.out.v["poly_timestamp"]
                /\ call.out.v["poly_signature"]
                       = build_hmac_signature(call.api_creds.secret, t, call.method,
                                              call.req_path, call.body).v

\* C27's case: create_l1_headers called after the clock had advanced, and the
\* clock advancing again after the call
C27_Witness ==
    /\ call.op = "create_l1_headers"
    /\ call.out.ok
    /\ call.now > StartTime
    /\ clock > call.now
    /\ call.out.v["poly_timestamp"] = Decimal(call.now)

\* run_realtime_tui has returned to main
TuiReturned == caller.fn = "run_realtime_tui" /\ caller.pc = "returned"

\* C21: whenever run_realtime_tui returns, by user quit, by the reader
\* finishing or by a terminal error, the reader task that owns the client has
\* been terminated: it no longer calls next_event and no longer updates the
\* shared state.
C21_ReaderTerminatedOnReturn ==
    [][TuiReturned => ~EventTaskStep /\ data' = data]_vars

\* C30: on every path by which run_realtime_tui or select_market_tui returns
\* after raw mode was enabled, successful or failed, raw mode has been
\* disabled and the alternate screen left before the return.
C30_TerminalRestoredOnReturn ==
    (caller.fn \in TuiFunctions /\ caller.pc = "returned" /\ terminal.was_raw)
        => ~terminal.raw_mode /\ ~terminal.alternate_screen

\* the number of asset ids derive_asset_ids finds for the market
DerivedCount(market) ==
    IF derive_asset_ids(market).some THEN Len(derive_asset_ids(market).v) ELSE 0

\* C24: main never subscribes with an invalid asset set: subscribe is never
\* called with an empty asset-id list, and in market mode main returns a
\* ValidationError without subscribing when fewer than two asset ids can be
\* derived for the market.
C24_NeverSubscribesInvalidSet ==
    /\ \A i \in 1..Len(main.subscribed) : main.subscribed[i] # <<>>
    /\ (main.market.some /\ DerivedCount(main.market.v) < 2) =>
            /\ main.subscribed = <<>>
            /\ main.pc = "returned" => main.result = Some(Err("Validation"))

\* POLY_ASSET_IDS is set but names no asset, the market loaded has one token
\* id only, and main has returned the ValidationError
C24_Witness ==
    /\ main.pc = "returned"
    /\ main.env.POLY_ASSET_IDS.some
    /\ main.env.POLY_ASSET_IDS.v # <<>>
    /\ main.market.some
    /\ DerivedCount(main.market.v) = 1
    /\ main.result = Some(Err("Validation"))
    /\ main.subscribed = <<>>


(***************************************************************************)
(* The credentials manager (client.rs, create_or_derive_api_key): one call, *)
(* its requests and the responses of the exchange.  The clock advances     *)
(* between the steps.                                                      *)
(***************************************************************************)
\* the credentials the exchange may answer with
ApiCredentialSet == {"creds1", "creds2"}

\* the answers of the exchange to POST /auth/api-key
PostResponses ==
    {[status |-> "200", body |-> c] : c \in ApiCredentialSet}
        \cup {[status |-> "conflict"], [status |-> "error"]}

\* the answers of the exchange to GET /auth/derive-api-key
GetResponses ==
    {[status |-> "200", body |-> c] : c \in ApiCredentialSet}
        \cup {[status |-> "error"]}

Request(method, path, headers) ==
    [method |-> method, path |-> path, headers |-> headers]

\* The fallback building its L1 headers again when it is reached.
derive_api_key_headers_rebuilt(post_headers, signer, nonce) ==
    create_l1_headers(signer, nonce).v

\* The headers of the fallback request: those the POST carried.
derive_api_key_headers(post_headers, signer, nonce) == post_headers

\* Steps 1 and 2: the L1 headers are built and the POST is sent with them.
CreateOrDerivePost ==
    /\ http.pc = "idle"
    /\ \E signer \in Signers, nonce \in Nonces :
          LET headers == create_l1_headers(signer, nonce)
          IN  IF ~headers.ok
              THEN http' = [http EXCEPT !.pc = "returned",
                                        !.args = Some(<<signer, nonce>>),
                                        !.result = Some(headers)]
              ELSE http' = [http EXCEPT
                              !.pc = "post_sent",
                              !.args = Some(<<signer, nonce>>),
                              !.requests = <<Request("POST", "/auth/api-key",
                                                     headers.v)>>]
    /\ UNCHANGED <<authVars, wssVars, unitVars, mainVars, tuiVars>>

\* Steps 3 and 4: the answer to the POST; 200 gives the credentials, a
\* conflict sends the fallback request, anything else is the call's error.
CreateOrDerivePostResponse ==
    /\ http.pc = "post_sent"
    /\ \E response \in PostResponses :
          LET answered == [http EXCEPT !.responses = <<response>>]
              signer == http.args.v[1]
              nonce == http.args.v[2]
          IN  CASE response.status = "200" ->
                     http' = [answered EXCEPT !.pc = "returned",
                                              !.result = Some(Ok(response.body))]
                [] response.status = "conflict" ->
                     http' = [answered EXCEPT
                                !.pc = "get_sent",
                                !.requests = Append(@,
                                    Request("GET", "/auth/derive-api-key",
                                            derive_api_key_headers(
                                                http.requests[1].headers,
                                                signer, nonce)))]
                [] OTHER ->
                     http' = [answered EXCEPT !.pc = "returned",
                                              !.result = Some(Err("Api"))]
    /\ UNCHANGED <<authVars, wssVars, unitVars, mainVars, tuiVars>>

\* The answer to the fallback request.
CreateOrDeriveGetResponse ==
    /\ http.pc = "get_sent"
    /\ \E response \in GetResponses :
          LET answered == [http EXCEPT !.responses = Append(@, response)]
          IN  IF response.status = "200"
              THEN http' = [answered EXCEPT !.pc = "returned",
                                            !.result = Some(Ok(response.body))]
              ELSE http' = [answered EXCEPT !.pc = "returned",
                                            !.result = Some(Err("Api"))]
    /\ UNCHANGED <<authVars, wssVars, unitVars, mainVars, tuiVars>>

InitCreds == InitAuth

NextCreds ==
    \/ Tick
    \/ CreateOrDerivePost
    \/ CreateOrDerivePostResponse
    \/ CreateOrDeriveGetResponse

SpecCreds == InitCreds /\ [][NextCreds]_vars

\* C22: create_or_derive issues POST /auth/api-key first and returns the
\* credentials of a 200 response to it; GET /auth/derive-api-key is issued
\* only second, only after the POST was answered with a conflict, and with
\* the L1 headers the POST carried.
C22_PostFirstDeriveOnlyAfterConflict ==
    /\ Len(http.requests) <= 2
    /\ \A i \in 1..Len(http.requests) :
          IF i = 1
          THEN /\ http.requests[i].method = "POST"
               /\ http.requests[i].path = "/auth/api-key"
          ELSE /\ http.requests[i].method = "GET"
               /\ http.requests[i].path = "/auth/derive-api-key"
               /\ http.responses[1].status = "conflict"
               /\ http.requests[i].headers = http.requests[1].headers
    /\ (Len(http.responses) >= 1 /\ http.responses[1].status = "200") =>
           /\ http.pc = "returned"
           /\ http.result = Some(Ok(http.responses[1].body))
           /\ Len(http.requests) = 1

\* The fallback was sent a second or more after the POST, and answered.
C22_Witness ==
    /\ http.pc = "returned"
    /\ Len(http.requests) = 2
    /\ http.requests[2].headers[POLY_TS_HEADER] # Decimal(clock)
    /\ http.result.v.ok


(***************************************************************************)
(* run_realtime_tui, lock by lock: the event task and the UI loop share    *)
(* RealtimeData behind one std::sync::Mutex.  mutex names the holder of    *)
(* its guard.  event_task.pc is next_event, lock (at data_clone.lock()) or *)
(* locked (inside the `if let`), and event_task.changes holds the writes   *)
(* the event in hand still asks for.  caller.pc is ui_loop (the top of the *)
(* loop, 404), draw (439), flush (the rest of terminal.draw), poll (448),  *)
(* read (449), key (471, 491, 508), is_finished (541) or sleep (546).      *)
(***************************************************************************)
\* the writes an event asks of the event task: one per book or trade of a
\* tracked asset, one per change of a tracked asset
Writes(event) ==
    IF event.event_type = "price_change"
    THEN LET tracked == SelectSeq(event.price_changes,
                                  LAMBDA c : IsTracked(c.asset_id))
         IN  [i \in 1..Len(tracked) |-> [op |-> "update_hash", arg |-> tracked[i]]]
    ELSE IF event.event_type = "book" /\ IsTracked(event.asset_id)
    THEN <<[op |-> "update_book", arg |-> event]>>
    ELSE IF event.event_type = "last_trade_price" /\ IsTracked(event.asset_id)
    THEN <<[op |-> "add_trade", arg |-> event]>>
    ELSE <<>>

\* A guard that outlives its block.
drop_guard_leaked(holder) == holder

\* The guard goes out of scope at the end of its `if let` block or closure.
drop_guard(holder) == Unlocked

\* client.next_event().await returns; the match arm is chosen
ReaderNextEvent ==
    /\ EventTaskReads
    /\ LET r == next_event(Head(wire))
       IN  event_task' =
               IF ~r.ok
               THEN [event_task EXCEPT !.pc = "finished", !.err = Some(r.err)]
               ELSE IF Writes(r.v) = <<>> THEN event_task
               ELSE [event_task EXCEPT !.pc = "lock", !.changes = Writes(r.v)]
    /\ wire' = Tail(wire)
    /\ UNCHANGED <<authVars, server, data, caller, yielded, unitVars,
                   credVars, mainVars, tuiVars>>

\* data_clone.lock(): the task's thread blocks until the mutex is free
ReaderLock ==
    /\ caller.fn = "run_realtime_tui"
    /\ event_task.pc = "lock"
    /\ mutex = Unlocked
    /\ mutex' = "event_task"
    /\ event_task' = [event_task EXCEPT !.pc = "locked"]
    /\ UNCHANGED <<authVars, wire, server, data, caller, yielded, unitVars,
                   credVars, mainVars, terminal>>

\* the body of the `if let Ok(mut data)`: the one call, then the guard drops
ReaderWrite ==
    /\ caller.fn = "run_realtime_tui"
    /\ event_task.pc = "locked"
    /\ LET write == Head(event_task.changes)
           side == IF write.arg.asset_id = data.yes_asset_id THEN data.yes_data
                   ELSE data.no_data
       IN  CASE write.op = "update_book" ->
                  data' = event_task_on_book(data, write.arg)
             [] write.op = "add_trade" ->
                  data' = event_task_on_last_trade(data, write.arg, clock)
             [] OTHER ->
                  \E next_key \in HashMap_keys_next(
                        HashMap_insert(side.recent_hashes, write.arg.asset_id,
                                       write.arg.hash)) :
                      data' = event_task_on_change(data, write.arg, next_key)
    /\ mutex' = drop_guard(mutex)
    /\ event_task' = IF Len(event_task.changes) = 1
                     THEN [event_task EXCEPT !.pc = "next_event", !.changes = <<>>]
                     ELSE [event_task EXCEPT !.pc = "lock", !.changes = Tail(@)]
    /\ UNCHANGED <<authVars, wire, server, caller, yielded, unitVars,
                   credVars, mainVars, terminal>>

\* where the UI loop goes on after a try_lock block, entered or not
AfterTryLock(pc) ==
    CASE pc = "ui_loop" -> "draw"
      [] pc = "draw" -> "flush"
      [] pc = "key" -> "is_finished"

\* data.try_lock(): the guard if the mutex is free, else the block is skipped
UiTryLock ==
    /\ caller.fn = "run_realtime_tui"
    /\ caller.pc \in {"ui_loop", "draw", "key"}
    /\ mutex # "ui_loop"
    /\ IF mutex = Unlocked
       THEN mutex' = "ui_loop" /\ UNCHANGED caller
       ELSE caller' = [caller EXCEPT !.pc = AfterTryLock(@)] /\ UNCHANGED mutex
    /\ UNCHANGED <<authVars, wire, server, data, event_task, yielded, unitVars,
                   credVars, mainVars, terminal>>

\* the body of a try_lock block: the lengths of the rings are read (404-430,
\* 471-487, 491-504, 508-523); in the draw closure the selections are
\* written and the frame is rendered from the data (439-443)
UiGuarded ==
    /\ caller.fn = "run_realtime_tui"
    /\ caller.pc \in {"ui_loop", "draw", "key"}
    /\ mutex = "ui_loop"
    /\ IF caller.pc = "draw"
       THEN \E yes_selected \in {None, Some(0)}, no_selected \in {None, Some(0)} :
               data' = [data EXCEPT !.yes_selected = yes_selected,
                                    !.no_selected = no_selected]
       ELSE UNCHANGED data
    /\ mutex' = drop_guard(mutex)
    /\ caller' = [caller EXCEPT !.pc = AfterTryLock(@)]
    /\ UNCHANGED <<authVars, wire, server, event_task, yielded, unitVars,
                   credVars, mainVars, terminal>>

\* `?` on a terminal error: the function returns at once
TerminalErrorReturn ==
    caller' = [caller EXCEPT !.pc = "returned", !.why = "terminal_error",
                             !.result = Some(Err("Internal"))]

\* terminal.draw after its closure: the frame is written to the terminal
UiFlush ==
    /\ caller.fn = "run_realtime_tui"
    /\ caller.pc = "flush"
    /\ \E drawn \in BOOLEAN :
          IF drawn THEN caller' = [caller EXCEPT !.pc = "poll"]
          ELSE TerminalErrorReturn
    /\ UNCHANGED <<authVars, wire, server, data, event_task, yielded, unitVars,
                   credVars, mainVars, tuiVars>>

\* event::poll(100 ms)
UiPoll ==
    /\ caller.fn = "run_realtime_tui"
    /\ caller.pc = "poll"
    /\ \E polled \in {"ready", "timeout", "error"} :
          CASE polled = "ready" -> caller' = [caller EXCEPT !.pc = "read"]
            [] polled = "timeout" -> caller' = [caller EXCEPT !.pc = "is_finished"]
            [] OTHER -> TerminalErrorReturn
    /\ UNCHANGED <<authVars, wire, server, data, event_task, yielded, unitVars,
                   credVars, mainVars, tuiVars>>

\* event::read() and the match on the key
UiRead ==
    /\ caller.fn = "run_realtime_tui"
    /\ caller.pc = "read"
    /\ \E key \in {"q", "Tab", "Enter", "error"} :
          CASE key = "q" ->
                 LeaveUiLoop(Ok(Unit), "quit")
            [] key = "Tab" ->
                 /\ caller' = [caller EXCEPT !.pc = "key"]
                 /\ UNCHANGED <<event_task, terminal>>
            [] key = "Enter" ->
                 /\ caller' = [caller EXCEPT !.pc = "is_finished"]
                 /\ UNCHANGED <<event_task, terminal>>
            [] OTHER ->
                 /\ TerminalErrorReturn
                 /\ UNCHANGED <<event_task, terminal>>
    /\ UNCHANGED <<authVars, wire, server, data, yielded, unitVars,
                   credVars, mainVars, mutex>>

\* if event_handle.is_finished() { break Ok(()) }
UiIsFinished ==
    /\ caller.fn = "run_realtime_tui"
    /\ caller.pc = "is_finished"
    /\ IF event_task.pc = "finished"
       THEN LeaveUiLoop(Ok(Unit), "task_finished")
       ELSE /\ caller' = [caller EXCEPT !.pc = "sleep"]
            /\ UNCHANGED <<event_task, terminal>>
    /\ UNCHANGED <<authVars, wire, server, data, yielded, unitVars,
                   credVars, mainVars, mutex>>

\* tokio::time::sleep(50 ms).await is over
UiSleep ==
    /\ caller.fn = "run_realtime_tui"
    /\ caller.pc = "sleep"
    /\ caller' = [caller EXCEPT !.pc = "ui_loop"]
    /\ UNCHANGED <<authVars, wire, server, data, event_task, yielded, unitVars,
                   credVars, mainVars, tuiVars>>

InitLock == InitWss /\ caller.fn = "run_realtime_tui"

NextLock ==
    \/ ServerSend
    \/ NextEventSkipsUnknown
    \/ ReaderNextEvent
    \/ ReaderLock
    \/ ReaderWrite
    \/ EventTaskCancelled
    \/ UiSetup
    \/ UiTryLock
    \/ UiGuarded
    \/ UiFlush
    \/ UiPoll
    \/ UiRead
    \/ UiIsFinished
    \/ UiSleep

SpecLock == InitLock /\ [][NextLock]_vars

\* the task is where it awaits or has ended
ReaderAwaits == event_task.pc \in {"next_event", "finished", "cancelled"}

\* the UI loop writes to, polls or reads the terminal, sleeps, or is not running
UiAwaits ==
    caller.pc \in {"setup", "flush", "poll", "read", "is_finished", "sleep",
                   "returned"}

\* C23: RealtimeData changes only in a step of the thread that holds the
\* guard of its mutex, and is read by the UI loop only with the guard held;
\* the event task holds no guard while it awaits next_event, and the UI loop
\* holds none while it writes the frame, polls, reads an event or sleeps.
C23_DataUnderMutexNoIoWhileHeld ==
    /\ [](ReaderAwaits => mutex # "event_task")
    /\ [](UiAwaits => mutex # "ui_loop")
    /\ [][/\ data' # data =>
                \/ mutex = "event_task" /\ event_task.pc = "locked"
                \/ mutex = "ui_loop" /\ caller.pc = "draw"
          /\ UiGuarded => mutex = "ui_loop" /\ mutex' = Unlocked]_vars

\* The UI loop polls the terminal while the event task holds the guard, a
\* trade already in the ring.
C23_Witness ==
    /\ caller.pc = "poll"
    /\ mutex = "event_task"
    /\ event_task.pc = "locked"
    /\ data.yes_data.recent_trades # <<>>
    /\ data.yes_selected = Some(0)

====
